---- MODULE Spec2Model ----
(***************************************************************************)
(* GST filing pipeline of lijo41/adk: the invoice validation,             *)
(* deduplication and categorization rule engine of GSTR1ExtractionAgent,  *)
(* its extract_gstr1_data handler with the manual fallback parser, and    *)
(* the keyword / batch-LLM classifier of CategorizationAgent.             *)
(*                                                                         *)
(* Python values are tagged records: [t |-> "none"], [t |-> "str", s],    *)
(* [t |-> "int", i], [t |-> "float", f], [t |-> "bool", b],               *)
(* [t |-> "list", l], [t |-> "dict", d].  A dict is a TLA+ function from  *)
(* its keys; a missing key is a key outside its DOMAIN.  A float is       *)
(* [k |-> "fin", n] with n counted in 1/Scale units, or nan / inf / ninf. *)
(* Text is a TLA+ string, handled character by character.                 *)
(***************************************************************************)
EXTENDS Integers, Sequences, FiniteSets, TLC

VARIABLES
    invoice_data,       \* validate_gst_data: the candidate invoice handed in
    validated,          \* validate_gst_data: its outcome (a dict, or an exception)
    invoices,           \* _deduplicate_invoices: the validated invoices handed in
    user_gstin,         \* the filer's own GSTIN (dedup and extract)
    unique_invoices,    \* _deduplicate_invoices: the list it returns
    extraction_result,  \* _categorize_invoices: the dict handed in
    categorized_result, \* _categorize_invoices: the dict it returns
    api_key,            \* extract_gstr1_data: GOOGLE_API_KEY is set
    content,            \* extract_gstr1_data: what the fallback regexes find in the joined chunks
    response,           \* extract_gstr1_data: outcome of model.generate_content
    gstr1_result,       \* extract_gstr1_data: what the caller gets (a dict, or an exception)
    chunks,             \* categorize_chunks: the chunk texts
    llm_response,       \* categorize_chunks: outcome of the batch model call
    categorization,     \* categorize_chunks: what the caller gets
    model_calls,        \* number of generate_content calls made by the last handler
    filing_month,       \* filter_chunks_by_period: the month name, or None
    filing_year,        \* filter_chunks_by_period: the year, or None
    start_date,         \* filter_chunks_by_period: first day of a custom range, or None
    end_date,           \* filter_chunks_by_period: last day of a custom range, or None
    relevant_chunks,    \* filter_chunks_by_period: indices of the chunks step 1 kept
    filter_result,      \* filter_chunks_by_period: what the caller gets
    pc,                 \* filter_chunks_by_period: the step it has reached
    document_store,     \* document_store["chunks"]: filename -> chunks, in insertion order
    filing_request,     \* submit_filing: the user and the document_ids of the request
    gstr1_details,      \* process_gstr1_filing: the period of the filing
    filtered_result,    \* process_gstr1_filing: what the period filter gave
    filtered_chunks,    \* process_gstr1_filing: the chunks handed to the extractor
    filing_result,      \* process_gstr1_filing: what the caller gets
    extractor_calls,    \* number of extract_gstr1_data calls of the request
    saved_returns,      \* number of GSTR1ReturnDB rows committed
    db_fails,           \* the database refuses the commit
    filing_pc,          \* submit_filing / process_gstr1_filing: the step reached
    text_in,            \* chunk_text: the text to split
    chunk_size,         \* chunk_text: the length of a window
    overlap,            \* chunk_text: the overlap of consecutive windows
    start_at,           \* chunk_text: `start`, where the next window begins
    windows,            \* chunk_text: the <<start, end>> of the windows cut so far
    text_chunks,        \* chunk_text: the list `chunks` it builds
    chunk_pc            \* chunk_text: the step reached

vars == <<invoice_data, validated, invoices, user_gstin, unique_invoices,
          extraction_result, categorized_result, api_key, content, response,
          gstr1_result, chunks, llm_response, categorization, model_calls,
          filing_month, filing_year, start_date, end_date, relevant_chunks,
          filter_result, pc, document_store, filing_request, gstr1_details,
          filtered_result, filtered_chunks, filing_result, extractor_calls,
          saved_returns, db_fails, filing_pc, text_in, chunk_size, overlap, start_at,
          windows, text_chunks, chunk_pc>>

Idle == "idle"

\* the state of filter_chunks_by_period
filterVars ==
    <<filing_month, filing_year, start_date, end_date, relevant_chunks, filter_result, pc>>

\* no call of filter_chunks_by_period is under way
FilterIdle ==
    /\ filing_month = Idle /\ filing_year = Idle /\ start_date = Idle /\ end_date = Idle
    /\ relevant_chunks = Idle /\ filter_result = Idle /\ pc = Idle

\* the state of submit_filing and process_gstr1_filing
filingVars ==
    <<document_store, filing_request, gstr1_details, filtered_result, filtered_chunks,
      filing_result, extractor_calls, saved_returns, db_fails, filing_pc>>

\* no filing request is under way
FilingIdle ==
    /\ document_store = Idle /\ filing_request = Idle /\ gstr1_details = Idle
    /\ filtered_result = Idle /\ filtered_chunks = Idle /\ filing_result = Idle
    /\ extractor_calls = Idle /\ saved_returns = Idle /\ db_fails = Idle
    /\ filing_pc = Idle

\* the state of chunk_text
chunkerVars == <<text_in, chunk_size, overlap, start_at, windows, text_chunks, chunk_pc>>

\* no call of chunk_text is under way
ChunkerIdle ==
    /\ text_in = Idle /\ chunk_size = Idle /\ overlap = Idle /\ start_at = Idle
    /\ windows = Idle /\ text_chunks = Idle /\ chunk_pc = Idle

----------------------------------------------------------------------------
(* Bounds of the model, and the unit of amounts.                           *)

\* amounts are counted in hundredths (paise), so that 250000.01 is a value
Scale == 10 * 10
\* invoices per deduplication input
MaxDedup == 3
\* invoices per categorization input
MaxCategorize == 2
\* invoices per model response
MaxResponseInvoices == 2
\* sections re.split cuts the joined chunks into
MaxSections == 2
\* chunks per categorize_chunks call
MaxChunks == 2
\* chunks per filter_chunks_by_period call
MaxFilterChunks == 2
\* characters of a text handed to chunk_text
MaxTextLen == 6
\* the largest chunk_size
MaxChunkSize == 5
\* iterations of the loop of chunk_text that are followed
MaxWindows == 8

----------------------------------------------------------------------------
(* Characters and strings.                                                 *)

Char(s, i) == SubSeq(s, i, i)

Rest(s) == SubSeq(s, 2, Len(s))

LowerLetters == "abcdefghijklmnopqrstuvwxyz"

UpperLetters == "ABCDEFGHIJKLMNOPQRSTUVWXYZ"

Digits == "0123456789"

\* \s of the re module and str.strip(): the whitespace that occurs in the inputs
Whitespace == {" ", "\n", "\t"}

IndexIn(alphabet, c) ==
    IF \E i \in 1..Len(alphabet) : Char(alphabet, i) = c
    THEN CHOOSE i \in 1..Len(alphabet) : Char(alphabet, i) = c
    ELSE 0

UpperChar(c) ==
    IF IndexIn(LowerLetters, c) > 0 THEN Char(UpperLetters, IndexIn(LowerLetters, c)) ELSE c

LowerChar(c) ==
    IF IndexIn(UpperLetters, c) > 0 THEN Char(LowerLetters, IndexIn(UpperLetters, c)) ELSE c

RECURSIVE Upper(_)
Upper(s) == IF s = "" THEN "" ELSE UpperChar(Char(s, 1)) \o Upper(Rest(s))

RECURSIVE Lower(_)
Lower(s) == IF s = "" THEN "" ELSE LowerChar(Char(s, 1)) \o Lower(Rest(s))

RECURSIVE LStrip(_)
LStrip(s) == IF s # "" /\ Char(s, 1) \in Whitespace THEN LStrip(Rest(s)) ELSE s

RECURSIVE RStrip(_)
RStrip(s) ==
    IF s # "" /\ Char(s, Len(s)) \in Whitespace THEN RStrip(SubSeq(s, 1, Len(s) - 1)) ELSE s

Strip(s) == RStrip(LStrip(s))

\* `k in t` on strings
Contains(t, k) == \E i \in 1..(Len(t) - Len(k) + 1) : SubSeq(t, i, i + Len(k) - 1) = k

\* s with every character of the set drop removed (re.sub of a character class, str.replace of one character)
RECURSIVE RemoveChars(_, _)
RemoveChars(s, drop) ==
    IF s = "" THEN ""
    ELSE (IF Char(s, 1) \in drop THEN "" ELSE Char(s, 1)) \o RemoveChars(Rest(s), drop)

IsDigits(s) == s # "" /\ \A i \in 1..Len(s) : IndexIn(Digits, Char(s, i)) > 0

RECURSIVE DigitsToInt(_)
DigitsToInt(s) ==
    IF s = "" THEN 0
    ELSE 10 * DigitsToInt(SubSeq(s, 1, Len(s) - 1)) + (IndexIn(Digits, Char(s, Len(s))) - 1)

RECURSIVE IntToDigits(_)
IntToDigits(n) ==
    IF n < 10 THEN Char(Digits, n + 1)
    ELSE IntToDigits(n \div 10) \o Char(Digits, (n % 10) + 1)

\* position of the first occurrence of the character c in s, 0 if none
FindChar(s, c) ==
    IF \E i \in 1..Len(s) : Char(s, i) = c
    THEN CHOOSE i \in 1..Len(s) : Char(s, i) = c /\ \A j \in 1..(i - 1) : Char(s, j) # c
    ELSE 0

----------------------------------------------------------------------------
(* Python floats.                                                          *)

Fin(n) == [k |-> "fin", n |-> n]

NaN == [k |-> "nan", n |-> 0]

PosInf == [k |-> "inf", n |-> 0]

NegInf == [k |-> "ninf", n |-> 0]

\* the failure of a conversion (ValueError / TypeError / AttributeError)
Err == [k |-> "err", n |-> 0]

IsFinite(f) == f.k = "fin"

\* a + b
FAdd(a, b) ==
    IF a.k = "nan" \/ b.k = "nan" THEN NaN
    ELSE IF a.k = "fin" /\ b.k = "fin" THEN Fin(a.n + b.n)
    ELSE IF a.k = "fin" THEN b
    ELSE IF b.k = "fin" THEN a
    ELSE IF a.k = b.k THEN a
    ELSE NaN

\* a > b
FGt(a, b) ==
    CASE a.k = "nan" \/ b.k = "nan" -> FALSE
      [] a.k = "fin" /\ b.k = "fin" -> a.n > b.n
      [] a.k = "inf" -> b.k # "inf"
      [] a.k = "ninf" -> FALSE
      [] OTHER -> b.k = "ninf"

\* the fraction digits of repr(float): "0" for .00, "5" for .50, "05" for .05
FracRepr(h) ==
    IF h % 10 = 0 THEN IntToDigits(h \div 10)
    ELSE IntToDigits(h \div 10) \o IntToDigits(h % 10)

\* repr(float), as an f-string formats it
FloatRepr(f) ==
    CASE f.k = "nan" -> "nan"
      [] f.k = "inf" -> "inf"
      [] f.k = "ninf" -> "-inf"
      [] f.k = "fin" /\ f.n >= 0 -> IntToDigits(f.n \div Scale) \o "." \o FracRepr(f.n % Scale)
      [] OTHER -> "-" \o IntToDigits((-f.n) \div Scale) \o "." \o FracRepr((-f.n) % Scale)

\* the value of the digits ip before and fp after the point
ParseDigits(ip, fp) ==
    IF ~(ip = "" \/ IsDigits(ip)) \/ ~(fp = "" \/ (IsDigits(fp) /\ Len(fp) <= 2)) \/ (ip = "" /\ fp = "")
    THEN Err
    ELSE Fin(DigitsToInt(ip) * Scale
             + (IF Len(fp) = 1 THEN 10 * DigitsToInt(fp) ELSE DigitsToInt(fp)))

\* s cut at its first point, which is at position dot (0 if it has none)
ParseAtDot(s, dot) ==
    ParseDigits(IF dot = 0 THEN s ELSE SubSeq(s, 1, dot - 1),
                IF dot = 0 THEN "" ELSE SubSeq(s, dot + 1, Len(s)))

\* an unsigned decimal literal with at most two fraction digits: "12", "12.", "12.5", ".5", "12.05"
ParseUnsigned(s) == ParseAtDot(s, FindChar(s, "."))

\* the float of a literal with sign neg, lower-cased body low and magnitude mag
ParseSigned(neg, low, mag) ==
    CASE low = "nan" -> NaN
      [] low \in {"inf", "infinity"} -> IF neg THEN NegInf ELSE PosInf
      [] mag.k = "err" -> Err
      [] OTHER -> IF neg THEN Fin(-mag.n) ELSE mag

ParseBody(neg, body) == ParseSigned(neg, Lower(body), ParseUnsigned(body))

ParseStripped(t) ==
    ParseBody(t # "" /\ Char(t, 1) = "-",
              IF t # "" /\ Char(t, 1) \in {"-", "+"} THEN Rest(t) ELSE t)

\* float(s) of a str: surrounding whitespace is ignored, a sign is allowed,
\* "nan" / "inf" / "infinity" are accepted in any letter case
ParseFloat(s) == ParseStripped(Strip(s))

----------------------------------------------------------------------------
(* Python values.                                                          *)

PyNone == [t |-> "none"]

PyStr(s) == [t |-> "str", s |-> s]

PyInt(i) == [t |-> "int", i |-> i]

PyFloat(f) == [t |-> "float", f |-> f]

PyBool(b) == [t |-> "bool", b |-> b]

PyList(l) == [t |-> "list", l |-> l]

PyDict(d) == [t |-> "dict", d |-> d]

EmptyDict == [x \in {} |-> PyNone]

\* bool(v): the truth value `if v`, `v or d`, `not v` test
Truthy(v) ==
    CASE v.t = "none" -> FALSE
      [] v.t = "str" -> v.s # ""
      [] v.t = "int" -> v.i # 0
      [] v.t = "float" -> ~(v.f.k = "fin" /\ v.f.n = 0)
      [] v.t = "bool" -> v.b
      [] v.t = "list" -> Len(v.l) > 0
      [] OTHER -> DOMAIN v.d # {}

\* v or d
PyOr(v, d) == IF Truthy(v) THEN v ELSE d

\* str(v); the text of a container's elements is not spelled out
StrOf(v) ==
    CASE v.t = "none" -> "None"
      [] v.t = "str" -> v.s
      [] v.t = "int" -> IF v.i < 0 THEN "-" \o IntToDigits(-v.i) ELSE IntToDigits(v.i)
      [] v.t = "float" -> FloatRepr(v.f)
      [] v.t = "bool" -> IF v.b THEN "True" ELSE "False"
      [] v.t = "list" -> "[...]"
      [] OTHER -> "{...}"

\* float(v): Err stands for the ValueError / TypeError it raises
FloatOf(v) ==
    CASE v.t = "int" -> Fin(v.i * Scale)
      [] v.t = "float" -> v.f
      [] v.t = "bool" -> Fin(IF v.b THEN Scale ELSE 0)
      [] v.t = "str" -> ParseFloat(v.s)
      [] OTHER -> Err

\* d.get(key, default) of a dict d
Get(d, key, default) == IF key \in DOMAIN d THEN d[key] ELSE default

\* the outcome of a call: a returned value, or the exception that left it
Returned(v) == [raised |-> FALSE, value |-> v]

Raised(e) == [raised |-> TRUE, value |-> [t |-> "exc", e |-> e]]

\* a call that has not been made yet
Pending == [raised |-> FALSE, value |-> [t |-> "pending"]]

IsPending(r) == ~r.raised /\ r.value.t = "pending"

\* a key that a dict literal leaves out
Missing == [t |-> "missing"]

\* the dict of the entries of f that are not Missing
MkDict(f) == PyDict([k \in {k \in DOMAIN f : f[k].t # "missing"} |-> f[k]])

RECURSIVE SetToSeq(_)
SetToSeq(S) == IF S = {} THEN <<>> ELSE LET x == CHOOSE x \in S : TRUE IN <<x>> \o SetToSeq(S \ {x})

\* `for x in v`: the elements visited, or the TypeError of a value that is not iterable
Iterate(v) ==
    CASE v.t = "list" -> Returned(v.l)
      [] v.t = "str" -> Returned([i \in 1..Len(v.s) |-> PyStr(Char(v.s, i))])
      [] v.t = "dict" -> Returned([i \in 1..Cardinality(DOMAIN v.d) |-> PyStr(SetToSeq(DOMAIN v.d)[i])])
      [] OTHER -> Raised("TypeError")

----------------------------------------------------------------------------
(* Calendar dates.                                                         *)

IsLeap(y) == (y % 4 = 0 /\ y % 100 # 0) \/ y % 400 = 0

DaysInMonth(y, m) ==
    CASE m \in {4, 6, 9, 11} -> 30
      [] m = 2 -> IF IsLeap(y) THEN 29 ELSE 28
      [] OTHER -> 31

\* datetime.strptime(s, '%Y-%m-%d') succeeds on the str s: four year digits,
\* one or two month digits, one or two day digits, and a day of the calendar
StrptimeFields(ys, ms, ds) ==
    /\ IsDigits(ys) /\ Len(ys) = 4 /\ DigitsToInt(ys) >= 1
    /\ IsDigits(ms) /\ Len(ms) <= 2 /\ DigitsToInt(ms) \in 1..12
    /\ IsDigits(ds) /\ Len(ds) <= 2
    /\ DigitsToInt(ds) \in 1..DaysInMonth(DigitsToInt(ys), DigitsToInt(ms))

\* ys, and r cut at its first hyphen, which is at position d2
StrptimeMonthDay(ys, r, d2) ==
    d2 # 0 /\ StrptimeFields(ys, SubSeq(r, 1, d2 - 1), SubSeq(r, d2 + 1, Len(r)))

StrptimeYear(ys, r) == StrptimeMonthDay(ys, r, FindChar(r, "-"))

\* s cut at its first hyphen, which is at position d1
StrptimeAt(s, d1) == d1 # 0 /\ StrptimeYear(SubSeq(s, 1, d1 - 1), SubSeq(s, d1 + 1, Len(s)))

StrptimeIsoOk(s) == StrptimeAt(s, FindChar(s, "-"))

----------------------------------------------------------------------------
(* GSTR1ExtractionAgent.validate_gst_data                                  *)

numeric_fields == {"invoice_value", "taxable_value", "igst", "cgst", "sgst", "cess"}

item_numeric_fields ==
    {"quantity", "unit_price", "taxable_value", "igst_rate", "cgst_rate", "sgst_rate",
     "igst", "cgst", "sgst", "cess"}

\* str(d.get(key, '') or '').strip()
CleanStr(d, key) == PyStr(Strip(StrOf(PyOr(Get(d, key, PyStr("")), PyStr("")))))

\* the except branch of the float coercions
OrZero(f) == PyFloat(IF f.k = "err" THEN Fin(0) ELSE f)

\* try: float(d.get(field, 0))  except: 0.0
CoerceFloat(d, field) == OrZero(FloatOf(Get(d, field, PyInt(0))))

\* the body of the loop over items: item.get raises on anything but a dict
ValidateItem(item) ==
    IF item.t # "dict" THEN Raised("AttributeError")
    ELSE Returned(PyDict(
            [f \in item_numeric_fields |-> CoerceFloat(item.d, f)]
            @@ [product_name |-> CleanStr(item.d, "product_name"),
                hsn_code |-> CleanStr(item.d, "hsn_code")]))

\* try: strptime(invoice_date, '%Y-%m-%d')  except: None
CheckedDate(date) == IF date.t = "str" /\ StrptimeIsoOk(date.s) THEN date ELSE PyNone

\* the validated dict of the invoice dict d, vitems being the outcomes of the
\* turns of the loop over its items
Validated(d, vitems) ==
    IF \E i \in 1..Len(vitems) : vitems[i].raised THEN Raised("AttributeError")
    ELSE Returned(PyDict(
            [f \in numeric_fields |-> CoerceFloat(d, f)]
            @@ [invoice_no |-> CleanStr(d, "invoice_no"),
                recipient_gstin |-> CleanStr(d, "recipient_gstin"),
                recipient_name |-> CleanStr(d, "recipient_name"),
                invoice_date |-> CheckedDate(Get(d, "invoice_date", PyStr(""))),
                items |-> PyList([i \in 1..Len(vitems) |-> vitems[i].value]),
                place_of_supply |-> CleanStr(d, "place_of_supply")]))

\* `for item in items` raises on a value that is not iterable
ValidateItems(d, items) ==
    IF items.raised THEN Raised("TypeError")
    ELSE Validated(d, [i \in 1..Len(items.value) |-> ValidateItem(items.value[i])])

validate_gst_data(inv) ==
    IF inv.t # "dict" THEN Raised("AttributeError")
    ELSE ValidateItems(inv.d, Iterate(Get(inv.d, "items", PyList(<<>>))))

----------------------------------------------------------------------------
(* GSTR1ExtractionAgent: duplicate key and deduplication                   *)

\* the length a recipient GSTIN must have
GSTIN_LEN == 15

\* mutant: the number is not upper-cased
_normalize_invoice_number_keeps_case(invoice_no) ==
    IF ~Truthy(invoice_no) THEN ""
    ELSE RemoveChars(StrOf(invoice_no), {"-", "/", "\\"} \cup Whitespace)

_normalize_invoice_number(invoice_no) ==
    IF ~Truthy(invoice_no) THEN ""
    ELSE RemoveChars(Upper(StrOf(invoice_no)), {"-", "/", "\\"} \cup Whitespace)

\* the key as the f-string builds it from the fields read, or the exception
\* of recipient_gstin.strip() / float()
DuplicateKey(user, invoice_no, invoice_date, recipient_gstin, invoice_value, customer_name) ==
    IF Truthy(recipient_gstin) /\ Len(Strip(StrOf(recipient_gstin))) = GSTIN_LEN
    THEN IF recipient_gstin.t # "str" THEN Raised("AttributeError")
         ELSE Returned(PyStr("B2B_" \o user \o "_" \o Strip(recipient_gstin.s) \o "_"
                             \o invoice_no \o "_" \o StrOf(invoice_date)))
    ELSE IF invoice_value.k = "err" THEN Raised("ValueError")
         ELSE Returned(PyStr("B2CS_" \o invoice_no \o "_" \o StrOf(invoice_date) \o "_"
                             \o FloatRepr(invoice_value) \o "_" \o customer_name))

_get_duplicate_key(invoice, user) ==
    IF invoice.t # "dict" THEN Raised("AttributeError")
    ELSE DuplicateKey(user,
            _normalize_invoice_number(Get(invoice.d, "invoice_no", PyStr(""))),
            Get(invoice.d, "invoice_date", PyStr("")),
            Get(invoice.d, "recipient_gstin", PyStr("")),
            FloatOf(Get(invoice.d, "invoice_value", PyInt(0))),
            Upper(Strip(StrOf(Get(invoice.d, "recipient_name", PyStr(""))))))

\* mutant: the key of a kept invoice is not added to seen_keys
RECURSIVE DedupLoop_forgets_keys(_, _, _, _, _)
DedupLoop_forgets_keys(invs, user, i, seen_keys, unique) ==
    IF i > Len(invs) THEN Returned(PyList(unique))
    ELSE LET duplicate_key == _get_duplicate_key(invs[i], user)
         IN  IF duplicate_key.raised THEN duplicate_key
             ELSE IF duplicate_key.value.s \in seen_keys
             THEN DedupLoop_forgets_keys(invs, user, i + 1, seen_keys, unique)
             ELSE DedupLoop_forgets_keys(invs, user, i + 1, seen_keys, Append(unique, invs[i]))

\* the loop of _deduplicate_invoices from position i on, with the keys seen and
\* the invoices kept so far
RECURSIVE DedupLoop(_, _, _, _, _)
DedupLoop(invs, user, i, seen_keys, unique) ==
    IF i > Len(invs) THEN Returned(PyList(unique))
    ELSE LET duplicate_key == _get_duplicate_key(invs[i], user)
         IN  IF duplicate_key.raised THEN duplicate_key
             ELSE IF duplicate_key.value.s \in seen_keys
             THEN DedupLoop(invs, user, i + 1, seen_keys, unique)
             ELSE DedupLoop(invs, user, i + 1, seen_keys \cup {duplicate_key.value.s},
                            Append(unique, invs[i]))

_deduplicate_invoices(invs, user) ==
    IF Len(invs) = 0 THEN Returned(PyList(invs)) ELSE DedupLoop(invs, user, 1, {}, <<>>)

----------------------------------------------------------------------------
(* GSTR1ExtractionAgent._categorize_invoices                               *)

\* Rs 2.5 lakh
B2CL_THRESHOLD == 250000

null_markers == {"null", "none", "n/a", ""}

\* the tests of has_gstin on the stripped identifier
GstinOk(gs) == gs # "" /\ Lower(gs) \notin null_markers /\ Len(gs) = GSTIN_LEN

HasGstinOf(g) == Truthy(g) /\ GstinOk(Strip(StrOf(g)))

\* has_gstin of one invoice dict d
HasGstin(d) == HasGstinOf(Get(d, "recipient_gstin", PyStr("")))

\* mutant: the threshold test is >= instead of >
CategoryOf_threshold_inclusive(d, v) ==
    IF HasGstin(d) THEN "B2B"
    ELSE IF FGt(v, Fin(B2CL_THRESHOLD * Scale)) \/ v = Fin(B2CL_THRESHOLD * Scale) THEN "B2CL"
    ELSE "B2CS"

\* the category the if / elif / else gives one invoice dict d whose value is the float v
CategoryOf(d, v) ==
    IF HasGstin(d) THEN "B2B"
    ELSE IF FGt(v, Fin(B2CL_THRESHOLD * Scale)) THEN "B2CL"
    ELSE "B2CS"

\* the invoice dict d tagged with the category its value v gives it
Tag(d, v) ==
    IF v.k = "err" THEN Raised("ValueError")
    ELSE Returned(PyDict([category |-> PyStr(CategoryOf(d, v))] @@ d))

\* one turn of the categorization loop: the invoice with its category tag
CategorizeOne(invoice) ==
    IF invoice.t # "dict" THEN Raised("AttributeError")
    ELSE Tag(invoice.d, FloatOf(Get(invoice.d, "invoice_value", PyInt(0))))

RECURSIVE SumFloats(_)
SumFloats(fs) == IF Len(fs) = 0 THEN Fin(0) ELSE FAdd(fs[1], SumFloats(Tail(fs)))

\* the sum of three floats, Err when float() raised for one of them
AddTax(i, c, g) == IF i.k = "err" \/ c.k = "err" \/ g.k = "err" THEN Err ELSE FAdd(FAdd(i, c), g)

\* float(item.get("igst", 0)) + float(item.get("cgst", 0)) + float(item.get("sgst", 0))
ItemTax(item) ==
    IF item.t # "dict" THEN Err
    ELSE AddTax(FloatOf(Get(item.d, "igst", PyInt(0))),
                FloatOf(Get(item.d, "cgst", PyInt(0))),
                FloatOf(Get(item.d, "sgst", PyInt(0))))

\* the sum of the taxes of the items visited, Err when the loop raised
SumTaxes(raised, taxes) ==
    IF raised \/ \E i \in 1..Len(taxes) : taxes[i].k = "err" THEN Err ELSE SumFloats(taxes)

TaxesOf(items) == SumTaxes(items.raised, [i \in 1..Len(items.value) |-> ItemTax(items.value[i])])

\* the tax of the items of one invoice, Err when the loop over them raises
InvoiceTax(invoice) == TaxesOf(Iterate(Get(invoice.d, "items", PyList(<<>>))))

\* mutant: `if` in place of `elif`, so that a B2B invoice also falls through to the value test
OfCategory_falls_through(tagged, c) ==
    SelectSeq(tagged, LAMBDA inv :
        \/ inv.d["category"].s = c
        \/ (inv.d["category"].s = "B2B" /\ c = "B2CS"))

\* the list the loop appends the invoices of category c to
OfCategory(tagged, c) == SelectSeq(tagged, LAMBDA inv : inv.d["category"].s = c)

\* mutant: **extraction_result comes last in the dict literal
ReturnDict_header_wins(given, recomputed) == given @@ recomputed

\* the dict literal of the return statement: the recomputed entries come after
\* **extraction_result, so they win over entries of the same name
ReturnDict(given, recomputed) == recomputed @@ given

\* the return statement, given the tagged invoices, their values and taxes
\* and the three lists
CategorizedResult(result, tagged, values, taxes, b2b, b2cl, b2cs) ==
    IF \E i \in 1..Len(taxes) : taxes[i].k = "err" THEN Raised("TypeError")
    ELSE Returned(PyDict(ReturnDict(
            (IF "invoices" \in DOMAIN result THEN [invoices |-> PyList(tagged)] ELSE EmptyDict)
            @@ result,
            [total_invoices |-> PyInt(Len(tagged)),
             b2b_invoices |-> PyInt(Len(b2b)),
             b2cl_invoices |-> PyInt(Len(b2cl)),
             b2cs_invoices |-> PyInt(Len(b2cs)),
             total_taxable_value |-> PyFloat(SumFloats(values)),
             total_tax_amount |-> PyFloat(SumFloats(taxes)),
             b2b |-> PyList(b2b),
             b2cl |-> PyList(b2cl),
             b2cs |-> PyList(b2cs),
             categorization_summary |-> PyDict(
                 [total_invoices |-> PyInt(Len(tagged)),
                  b2b_count |-> PyInt(Len(b2b)),
                  b2cl_count |-> PyInt(Len(b2cl)),
                  b2cs_count |-> PyInt(Len(b2cs))])])))

\* the totals and the return statement, after the categorization loop
CategorizeTotals(result, tagged) ==
    CategorizedResult(result, tagged,
        [i \in 1..Len(tagged) |-> FloatOf(Get(tagged[i].d, "invoice_value", PyInt(0)))],
        [i \in 1..Len(tagged) |-> InvoiceTax(tagged[i])],
        OfCategory(tagged, "B2B"), OfCategory(tagged, "B2CL"), OfCategory(tagged, "B2CS"))

\* the outcome of the categorization loop, each being the outcome of its turns
CategorizeLoop(result, each) ==
    IF \E i \in 1..Len(each) : each[i].raised THEN Raised("AttributeError")
    ELSE CategorizeTotals(result, [i \in 1..Len(each) |-> each[i].value])

\* the function from `for invoice in invoices` on
CategorizeEach(result, invs) ==
    IF invs.raised THEN Raised("TypeError")
    ELSE CategorizeLoop(result, [i \in 1..Len(invs.value) |-> CategorizeOne(invs.value[i])])

_categorize_invoices(extraction) ==
    CategorizeEach(extraction.d, Iterate(Get(extraction.d, "invoices", PyList(<<>>))))

----------------------------------------------------------------------------
(* GSTR1ExtractionAgent._manual_parse_invoices                             *)
(*                                                                         *)
(* The joined chunk text is the list of the sections re.split cuts it      *)
(* into; a section is the record of what each re.search of the parser      *)
(* captures in it (None when the pattern does not match), and of whether   *)
(* its stripped length reaches the 50 characters below which it is passed  *)
(* over.                                                                   *)

DEFAULT_DATE == "2025-08-24"

MonthAbbr == <<"jan", "feb", "mar", "apr", "may", "jun", "jul", "aug", "sep", "oct", "nov", "dec">>

\* s.split(c) for a one-character separator c
RECURSIVE SplitOn(_, _)
SplitOn(s, c) ==
    LET at == FindChar(s, c)
    IN  IF at = 0 THEN <<s>>
        ELSE <<SubSeq(s, 1, at - 1)>> \o SplitOn(SubSeq(s, at + 1, Len(s)), c)

\* s.replace(a, b) for one-character strings a and b
RECURSIVE ReplaceChar(_, _, _)
ReplaceChar(s, a, b) ==
    IF s = "" THEN ""
    ELSE (IF Char(s, 1) = a THEN b ELSE Char(s, 1)) \o ReplaceChar(Rest(s), a, b)

Pad2(n) == IF n < 10 THEN "0" \o IntToDigits(n) ELSE IntToDigits(n)

\* dt.strftime('%Y-%m-%d') of a date with a four-digit year
IsoFormat(y, m, d) == IntToDigits(y) \o "-" \o Pad2(m) \o "-" \o Pad2(d)

\* the month a %b or %m field names, 0 when it names none
MonthOf(ms, by_name) ==
    IF by_name
    THEN IF \E i \in 1..12 : MonthAbbr[i] = Lower(ms)
         THEN CHOOSE i \in 1..12 : MonthAbbr[i] = Lower(ms) ELSE 0
    ELSE IF IsDigits(ms) /\ Len(ms) <= 2 /\ DigitsToInt(ms) \in 1..12 THEN DigitsToInt(ms) ELSE 0

\* the date of the day, month and year fields of a text of n fields, "" when
\* strptime raises
ReformatFields(n, ds, m, ys) ==
    IF /\ n = 3
       /\ IsDigits(ds) /\ Len(ds) <= 2
       /\ m # 0
       /\ IsDigits(ys) /\ Len(ys) = 4 /\ DigitsToInt(ys) >= 1
       /\ DigitsToInt(ds) \in 1..DaysInMonth(DigitsToInt(ys), m)
    THEN IsoFormat(DigitsToInt(ys), m, DigitsToInt(ds))
    ELSE ""

ReformatParts(parts, by_name) ==
    ReformatFields(Len(parts), parts[1], MonthOf(parts[2], by_name), parts[3])

\* datetime.strptime(s, '%d-%b-%Y') (by_name) or strptime(s, '%d-%m-%Y'),
\* formatted by strftime('%Y-%m-%d'); "" when strptime raises
ReformatDMY(s, by_name) == ReformatParts(SplitOn(s, "-"), by_name)

\* the bare except of the date conversion
OrDefaultDate(iso) == IF iso = "" THEN DEFAULT_DATE ELSE iso

\* the date conversion of the parser, with its default date on failure
ManualDate(date_str) ==
    OrDefaultDate(IF Contains(date_str, "-") /\ Len(SplitOn(date_str, "-")[2]) = 3
                  THEN ReformatDMY(date_str, TRUE)
                  ELSE ReformatDMY(ReplaceChar(date_str, "/", "-"), FALSE))

\* value * p / 100 of a float (value * 0.85, value * 0.15), rounded down to 1/Scale
Percent(f, p) ==
    IF f.k = "fin" THEN Fin((f.n \div 100) * p + ((f.n % 100) * p) \div 100) ELSE f

\* what the loop body builds from one section: Skip for a section it passes
\* over, the invoice dict, or the ValueError of float(amount_str)
Skip == [t |-> "skip"]

\* the invoice dict built from the captures of a section and its amount
ManualInvoice(section, amount) ==
    MkDict(
        [invoice_no |-> IF section.invoice_no.t = "str" THEN section.invoice_no ELSE Missing,
         invoice_date |-> IF section.date.t = "str" THEN PyStr(ManualDate(section.date.s))
                          ELSE Missing,
         recipient_gstin |-> section.gstin,
         recipient_name |-> IF section.recipient.t = "str"
                            THEN PyStr(Strip(section.recipient.s))
                            ELSE PyStr("Unknown Customer"),
         place_of_supply |-> IF section.place.t = "str" THEN PyStr(Strip(section.place.s))
                             ELSE PyStr("Unknown"),
         invoice_value |-> PyFloat(amount),
         items |-> PyList(<<PyDict(
             [product_name |-> PyStr("Extracted Item"),
              hsn_code |-> PyStr("9999"),
              quantity |-> PyInt(1),
              unit_price |-> PyFloat(amount),
              taxable_value |-> PyFloat(Percent(amount, 85)),
              igst |-> PyFloat(Percent(amount, 15)),
              cgst |-> PyInt(0),
              sgst |-> PyInt(0),
              cess |-> PyInt(0)])>>)])

\* the last test of the loop body: a number and a positive value were found
ManualKeep(invoice, amount) ==
    IF Truthy(Get(invoice.d, "invoice_no", PyNone)) /\ FGt(amount, Fin(0))
    THEN Returned(invoice)
    ELSE Returned(Skip)

ManualAmount(section, amount) ==
    IF amount.k = "err" THEN Raised("ValueError")
    ELSE ManualKeep(ManualInvoice(section, amount), amount)

ManualSection(section) ==
    IF ~section.long THEN Returned(Skip)
    ELSE ManualAmount(section, IF section.total.t = "str"
                               THEN ParseFloat(RemoveChars(section.total.s, {","}))
                               ELSE Fin(0))

\* the return statement of the parser
ManualTotals(found, values) ==
    Returned(PyDict(
        [total_invoices |-> PyInt(Len(found)),
         total_taxable_value |-> PyFloat(SumFloats(values)),
         total_tax_amount |-> PyFloat(SumFloats([i \in 1..Len(values) |-> Percent(values[i], 15)])),
         invoices |-> PyList(found)]))

ManualFound(found) == ManualTotals(found, [i \in 1..Len(found) |-> found[i].d["invoice_value"].f])

\* the outcome of the loop over the sections, each being the outcome of its turns
ManualLoop(each) ==
    IF \E i \in 1..Len(each) : each[i].raised THEN Raised("ValueError")
    ELSE ManualFound(SelectSeq([i \in 1..Len(each) |-> each[i].value], LAMBDA v : v.t = "dict"))

_manual_parse_invoices(sections) ==
    ManualLoop([i \in 1..Len(sections) |-> ManualSection(sections[i])])

----------------------------------------------------------------------------
(* GSTR1ExtractionAgent.extract_gstr1_data                                 *)
(*                                                                         *)
(* The outcome of model.generate_content is an exception ("raise"), a      *)
(* response without text ("none"), or a text.  A text is the list of its   *)
(* tokens: the fences "```json" and "```", and between them pieces of      *)
(* text that hold no fence, each either prose or the text of one JSON      *)
(* value (given by the value json.loads returns for it).                   *)

FenceJson == [t |-> "fence_json"]

Fence == [t |-> "fence"]

Prose == [t |-> "prose"]

Json(v) == [t |-> "json", v |-> v]

\* "```" occurs in both fences
AnyFence == {"fence", "fence_json"}

\* the position of the first token of text of one of the kinds, 0 if none
FirstToken(text, kinds) ==
    IF \E i \in 1..Len(text) : text[i].t \in kinds
    THEN CHOOSE i \in 1..Len(text) : text[i].t \in kinds /\ \A j \in 1..(i - 1) : text[j].t \notin kinds
    ELSE 0

\* text.split(fence)[1].split("```")[0]: what follows the first token of one
\* of the kinds `opens`, up to the next "```"
AfterFence(text, opens) ==
    LET rest == SubSeq(text, FirstToken(text, opens) + 1, Len(text))
        stop == FirstToken(rest, AnyFence)
    IN  IF stop = 0 THEN rest ELSE SubSeq(rest, 1, stop - 1)

\* the clean-up of the response text
StripFences(text) ==
    IF FirstToken(text, {"fence_json"}) # 0 THEN AfterFence(text, {"fence_json"})
    ELSE IF FirstToken(text, AnyFence) # 0 THEN AfterFence(text, AnyFence)
    ELSE text

\* json.loads of the cleaned text; an empty text raises before it
JsonLoads(text) ==
    IF Len(text) = 0 THEN Raised("ValueError")
    ELSE IF Len(text) = 1 /\ text[1].t = "json" THEN Returned(text[1].v)
    ELSE Raised("JSONDecodeError")

\* _deduplicate_invoices on the validated invoices, or the exception of the
\* first turn of the validation loop that raised
DeduplicateValidated(each, user) ==
    IF \E i \in 1..Len(each) : each[i].raised
    THEN each[CHOOSE i \in 1..Len(each) : each[i].raised /\ \A j \in 1..(i - 1) : ~each[j].raised]
    ELSE _deduplicate_invoices([i \in 1..Len(each) |-> each[i].value], user)

ValidateEntries(entries, user) ==
    IF entries.raised THEN Raised("TypeError")
    ELSE DeduplicateValidated([i \in 1..Len(entries.value) |-> validate_gst_data(entries.value[i])], user)

\* the loop validating result["invoices"], then _deduplicate_invoices
ValidateAndDeduplicate(invs, user) == ValidateEntries(Iterate(invs), user)

\* result["invoices"] = ..., then _categorize_invoices(result)
TryCategorize(result, outcome) ==
    IF outcome.raised THEN outcome
    ELSE _categorize_invoices(PyDict([invoices |-> outcome.value] @@ result))

\* the try block from json.loads on
TryLoaded(loaded, user) ==
    IF loaded.raised THEN loaded
    ELSE IF loaded.value.t # "dict" THEN Raised("AttributeError")
    ELSE TryCategorize(loaded.value.d,
            IF Truthy(Get(loaded.value.d, "invoices", PyNone))
            THEN ValidateAndDeduplicate(loaded.value.d["invoices"], user)
            ELSE Returned(PyList(<<>>)))

\* the try block: what it returns, or the exception that leaves it
ExtractTry(key, resp, user) ==
    IF ~key THEN Raised("ValueError")
    ELSE IF resp.kind = "raise" THEN Raised("Exception")
    ELSE IF resp.kind = "none" \/ Len(resp.text) = 0 THEN Raised("ValueError")
    ELSE TryLoaded(JsonLoads(StripFences(resp.text)), user)

\* the dict of the last return statement
EmptyResult ==
    PyDict([total_invoices |-> PyInt(0), b2b_invoices |-> PyInt(0), b2cl_invoices |-> PyInt(0),
            b2cs_invoices |-> PyInt(0), total_taxable_value |-> PyFloat(Fin(0)),
            total_tax_amount |-> PyFloat(Fin(0)), invoices |-> PyList(<<>>),
            b2b |-> PyList(<<>>), b2cl |-> PyList(<<>>), b2cs |-> PyList(<<>>)])

\* the inner try: an exception of _categorize_invoices is caught
FallbackCategorized(categorized) ==
    IF categorized.raised THEN Returned(EmptyResult) ELSE categorized

FallbackParsed(manual_result) ==
    IF manual_result.raised THEN Returned(EmptyResult)
    ELSE IF Truthy(manual_result.value) /\ Truthy(Get(manual_result.value.d, "invoices", PyNone))
    THEN FallbackCategorized(_categorize_invoices(manual_result.value))
    ELSE Returned(EmptyResult)

\* the except block: the manual parser inside its own try
ManualFallback(sections) == FallbackParsed(_manual_parse_invoices(sections))

\* mutant: `except ValueError` in place of `except Exception`
TryExcept_narrow(attempt, sections) ==
    IF attempt.raised /\ attempt.value.e = "ValueError" THEN ManualFallback(sections)
    ELSE attempt

\* try ... except Exception: the value of the try block, or the fallback
TryExcept(attempt, sections) ==
    IF attempt.raised THEN ManualFallback(sections) ELSE attempt

extract_gstr1_data(sections, key, resp, user) == TryExcept(ExtractTry(key, resp, user), sections)

----------------------------------------------------------------------------
(* CategorizationAgent._keyword_filter                                     *)

gstr1_keywords ==
    {"sale", "sold", "selling", "outward supply", "supply made", "supply to",
     "customer", "buyer", "gstin of recipient", "sold to",
     "place of supply", "sales invoice", "invoice to", "billed to",
     "delivered to", "shipped to", "consignee", "b2b supply", "b2c supply",
     "tax invoice", "original for recipient", "invoice original"}

gstr2_keywords ==
    {"purchase", "purchased", "buying", "procurement", "inward supply", "supply received",
     "input tax credit", "itc", "vendor", "supplier", "gstin of supplier",
     "reverse charge", "import", "customs", "bill of entry", "purchase invoice",
     "from supplier", "received from", "bought from", "procured from",
     "invoice from", "billed by", "supplied by", "vendor invoice",
     "gstr-2", "gstr2", "inward supply invoice"}

gstr1_strong == {"tax invoice", "original for recipient"}

gstr2_strong == {"gstr-2", "gstr2", "inward supply invoice"}

\* any(keyword in chunk_lower for keyword in keywords)
ContainsAny(chunk_lower, keywords) == \E k \in keywords : Contains(chunk_lower, k)

\* sum(1 for keyword in keywords if keyword in chunk_lower); no keyword is listed twice
Score(chunk_lower, keywords) == Cardinality({k \in keywords : Contains(chunk_lower, k)})

\* the dict of a classification result; confidence in hundredths
Classification(chunk_index, category, confidence, detected_data_types, method) ==
    PyDict([chunk_index |-> chunk_index,
            category |-> category,
            confidence |-> confidence,
            detected_data_types |-> detected_data_types,
            method |-> PyStr(method)])

ByKeyword(chunk_index, category, hundredths, labels, method) ==
    Classification(PyInt(chunk_index), PyStr(category), PyFloat(Fin(hundredths)),
                   PyList([i \in 1..Len(labels) |-> PyStr(labels[i])]), method)

Min(a, b) == IF a <= b THEN a ELSE b

\* mutant: the test of the GSTR-2 phrases comes first
StrongCategory_inward_first(chunk_lower) ==
    IF ContainsAny(chunk_lower, gstr2_strong) THEN "gstr2"
    ELSE IF ContainsAny(chunk_lower, gstr1_strong) THEN "gstr1"
    ELSE ""

\* the two strong-signal tests, in the order of the code: the category they
\* return, "" when neither returns
StrongCategory(chunk_lower) ==
    IF ContainsAny(chunk_lower, gstr1_strong) THEN "gstr1"
    ELSE IF ContainsAny(chunk_lower, gstr2_strong) THEN "gstr2"
    ELSE ""

\* mutant: equal scores go to the outward return
ByScore_ties_outward(chunk_lower, chunk_index, gstr1_score, gstr2_score) ==
    IF gstr2_score > gstr1_score /\ gstr2_score >= 1
    THEN ByKeyword(chunk_index, "gstr2", Min(80, 50 + gstr2_score * 10),
                   IF Contains(chunk_lower, "purchase") THEN <<"purchase">> ELSE <<"inward_supply">>,
                   "keyword")
    ELSE IF gstr1_score >= gstr2_score /\ gstr1_score >= 1
    THEN ByKeyword(chunk_index, "gstr1", Min(80, 50 + gstr1_score * 10),
                   IF ContainsAny(chunk_lower, {"sale", "sold"}) THEN <<"sale">> ELSE <<"outward_supply">>,
                   "keyword")
    ELSE ByKeyword(chunk_index, "irrelevant", 90, <<>>, "keyword")

\* the if / elif chain on the two scores
ByScore(chunk_lower, chunk_index, gstr1_score, gstr2_score) ==
    IF gstr2_score > gstr1_score /\ gstr2_score >= 1
    THEN ByKeyword(chunk_index, "gstr2", Min(80, 50 + gstr2_score * 10),
                   IF Contains(chunk_lower, "purchase") THEN <<"purchase">> ELSE <<"inward_supply">>,
                   "keyword")
    ELSE IF gstr1_score > gstr2_score /\ gstr1_score >= 1
    THEN ByKeyword(chunk_index, "gstr1", Min(80, 50 + gstr1_score * 10),
                   IF ContainsAny(chunk_lower, {"sale", "sold"}) THEN <<"sale">> ELSE <<"outward_supply">>,
                   "keyword")
    ELSE IF gstr1_score = gstr2_score /\ (gstr1_score > 0 \/ gstr2_score > 0)
    THEN ByKeyword(chunk_index, "ambiguous", 40, <<>>, "keyword")
    ELSE ByKeyword(chunk_index, "irrelevant", 90, <<>>, "keyword")

KeywordDecision(chunk_lower, chunk_index, strong) ==
    IF strong = "gstr1"
    THEN ByKeyword(chunk_index, "gstr1", 90, <<"outward_supply">>, "keyword_strong")
    ELSE IF strong = "gstr2"
    THEN ByKeyword(chunk_index, "gstr2", 90, <<"inward_supply">>, "keyword_strong")
    ELSE ByScore(chunk_lower, chunk_index, Score(chunk_lower, gstr1_keywords),
                 Score(chunk_lower, gstr2_keywords))

FilterLower(chunk_lower, chunk_index) ==
    KeywordDecision(chunk_lower, chunk_index, StrongCategory(chunk_lower))

_keyword_filter(chunk, chunk_index) == FilterLower(Lower(chunk), chunk_index)

----------------------------------------------------------------------------
(* CategorizationAgent._batch_llm_analysis                                 *)
(*                                                                         *)
(* The outcome of model.generate_content is an exception ("raise"), a text *)
(* in which the pattern \{.*\} finds nothing ("nomatch"), a text whose     *)
(* match json.loads rejects ("invalid"), or a text whose match is the JSON *)
(* object v ("json").  A Python dict whose keys matter is the list of its  *)
(* (key, value) pairs in insertion order.                                  *)

\* indexed_results[key] = value
Put(pairs, key, value) ==
    IF \E i \in 1..Len(pairs) : pairs[i][1] = key
    THEN [i \in 1..Len(pairs) |-> IF pairs[i][1] = key THEN <<key, value>> ELSE pairs[i]]
    ELSE Append(pairs, <<key, value>>)

\* one turn of the loop over the results: the dict built from one entry, or
\* the TypeError / KeyError of its subscripts
IndexedEntry(result) ==
    IF result.t # "dict" THEN Raised("TypeError")
    ELSE IF {"chunk_index", "category", "confidence"} \ DOMAIN result.d # {} THEN Raised("KeyError")
    ELSE Returned(Classification(result.d["chunk_index"], result.d["category"],
                                 result.d["confidence"],
                                 Get(result.d, "detected_data_types", PyList(<<>>)), "llm"))

RECURSIVE IndexLoop(_, _, _)

IndexStep(results, i, indexed_results, entry) ==
    IF entry.raised THEN entry
    ELSE IndexLoop(results, i + 1, Put(indexed_results, entry.value.d["chunk_index"], entry.value))

\* the loop over the results from position i on
IndexLoop(results, i, indexed_results) ==
    IF i > Len(results) THEN Returned(PyList(indexed_results))
    ELSE IndexStep(results, i, indexed_results, IndexedEntry(results[i]))

IndexResults(results) == IF results.raised THEN results ELSE IndexLoop(results.value, 1, <<>>)

\* the try block: the indexed results it returns, None when it falls through
\* for want of a match, or the exception that leaves it
BatchTry(resp) ==
    IF resp.kind = "raise" THEN Raised("Exception")
    ELSE IF resp.kind = "nomatch" THEN Returned(PyNone)
    ELSE IF resp.kind = "invalid" THEN Raised("JSONDecodeError")
    ELSE IndexResults(Iterate(Get(resp.v.d, "results", PyList(<<>>))))

\* the last return statement: every ambiguous chunk is irrelevant
BatchFallback(ambiguous_chunks) ==
    PyList([i \in 1..Len(ambiguous_chunks) |->
        <<PyInt(ambiguous_chunks[i]),
          Classification(PyInt(ambiguous_chunks[i]), PyStr("irrelevant"), PyFloat(Fin(50)),
                         PyList(<<>>), "fallback")>>])

BatchOutcome(attempt, ambiguous_chunks) ==
    IF attempt.raised \/ attempt.value.t = "none" THEN BatchFallback(ambiguous_chunks)
    ELSE attempt.value

\* ambiguous_chunks is the list of the indices of the ambiguous chunks
_batch_llm_analysis(ambiguous_chunks, resp) ==
    IF Len(ambiguous_chunks) = 0 THEN PyList(<<>>)
    ELSE BatchOutcome(BatchTry(resp), ambiguous_chunks)

----------------------------------------------------------------------------
(* CategorizationAgent.categorize_chunks and _calculate_confidence         *)

\* step 1: the keyword result of every chunk, indices counted from 0
KeywordStage(texts) == [i \in 1..Len(texts) |-> _keyword_filter(texts[i], i - 1)]

\* the indices of the results of the category, in order
IndicesOf(categorizations, category) ==
    SelectSeq([i \in 1..Len(categorizations) |-> i - 1],
              LAMBDA i : categorizations[i + 1].d["category"] = PyStr(category))

RECURSIVE UpdateLoop(_, _, _)

\* categorizations[chunk_idx] = llm_result
UpdateStep(categorizations, llm_results, k, chunk_idx, llm_result) ==
    IF chunk_idx.t # "int" THEN Raised("TypeError")
    ELSE IF chunk_idx.i >= Len(categorizations) \/ chunk_idx.i < -Len(categorizations)
    THEN Raised("IndexError")
    ELSE UpdateLoop(
            [categorizations EXCEPT ![IF chunk_idx.i >= 0 THEN chunk_idx.i + 1
                                      ELSE Len(categorizations) + chunk_idx.i + 1] = llm_result],
            llm_results, k + 1)

\* the loop over llm_results.items() from position k on
UpdateLoop(categorizations, llm_results, k) ==
    IF k > Len(llm_results) THEN Returned(PyList(categorizations))
    ELSE UpdateStep(categorizations, llm_results, k, llm_results[k][1], llm_results[k][2])

\* any(dt in types for dt in labels)
LabelTest(types, labels) ==
    CASE types.t = "list" -> Returned(PyBool(\E l \in labels : \E i \in 1..Len(types.l) : types.l[i] = PyStr(l)))
      [] types.t = "str" -> Returned(PyBool(\E l \in labels : Contains(types.s, l)))
      [] types.t = "dict" -> Returned(PyBool(\E l \in labels : l \in DOMAIN types.d))
      [] OTHER -> Raised("TypeError")

CountTests(tests) ==
    IF \E i \in 1..Len(tests) : tests[i].raised THEN Raised("TypeError")
    ELSE Returned(PyInt(Cardinality({i \in 1..Len(tests) : tests[i].value.b})))

\* len([c for c in categorizations if c["category"] == category and any(...)])
SupplyCount(categorizations, category, labels) ==
    CountTests([i \in 1..Len(categorizations) |->
        IF categorizations[i].d["category"] = PyStr(category)
        THEN LabelTest(Get(categorizations[i].d, "detected_data_types", PyList(<<>>)), labels)
        ELSE Returned(PyBool(FALSE))])

\* a term of sum(): Err for a value that cannot be added to a number
NumberOf(v) == IF v.t \in {"int", "float", "bool"} THEN FloatOf(v) ELSE Err

\* min(1.0, total / n), the quotient rounded down to 1/Scale
MeanCapped(total, n) ==
    IF total.k = "fin"
    THEN PyFloat(Fin(Min(Scale, total.n \div n)))
    ELSE PyFloat(IF total.k = "ninf" THEN NegInf ELSE Fin(Scale))

ConfidenceOf(terms) ==
    IF \E i \in 1..Len(terms) : terms[i].k = "err" THEN Raised("TypeError")
    ELSE Returned(MeanCapped(SumFloats(terms), Len(terms)))

_calculate_confidence(categorizations) ==
    IF Len(categorizations) = 0 THEN Returned(PyFloat(Fin(0)))
    ELSE ConfidenceOf([i \in 1..Len(categorizations) |->
                          NumberOf(Get(categorizations[i].d, "confidence", PyFloat(Fin(0))))])

PyInts(l) == PyList([i \in 1..Len(l) |-> PyInt(l[i])])

\* step 3: the dict of the return statement
Summary(texts, categorizations, ambiguous_chunks, gstr1_chunks, gstr2_chunks, outward, inward, overall) ==
    IF outward.raised \/ inward.raised \/ overall.raised THEN Raised("TypeError")
    ELSE Returned(PyDict(
        [gstr1_analysis |-> PyDict([relevant_chunks |-> PyInts(gstr1_chunks),
                                    outward_supply_count |-> outward.value,
                                    total_transactions |-> PyInt(Len(gstr1_chunks))]),
         gstr2_analysis |-> PyDict([relevant_chunks |-> PyInts(gstr2_chunks),
                                    inward_supply_count |-> inward.value,
                                    total_transactions |-> PyInt(Len(gstr2_chunks))]),
         categorization_summary |-> PyDict(
             [total_chunks |-> PyInt(Len(texts)),
              gstr1_chunks |-> PyInt(Len(gstr1_chunks)),
              gstr2_chunks |-> PyInt(Len(gstr2_chunks)),
              irrelevant_chunks |-> PyInt(Len(IndicesOf(categorizations, "irrelevant"))),
              ambiguous_chunks_processed |-> PyInt(Len(ambiguous_chunks)),
              overall_confidence |-> overall.value]),
         chunk_categorization |-> PyList(categorizations)]))

Summarize(texts, categorizations, ambiguous_chunks) ==
    Summary(texts, categorizations, ambiguous_chunks,
            IndicesOf(categorizations, "gstr1"), IndicesOf(categorizations, "gstr2"),
            SupplyCount(categorizations, "gstr1", {"sale", "outward_supply"}),
            SupplyCount(categorizations, "gstr2", {"purchase", "inward_supply"}),
            _calculate_confidence(categorizations))

AfterUpdate(texts, updated, ambiguous_chunks) ==
    IF updated.raised THEN updated ELSE Summarize(texts, updated.value.l, ambiguous_chunks)

\* step 2: the model results replace the entries they index
Escalate(texts, categorizations, ambiguous_chunks, resp) ==
    AfterUpdate(texts,
                IF Len(ambiguous_chunks) > 0
                THEN UpdateLoop(categorizations, _batch_llm_analysis(ambiguous_chunks, resp).l, 1)
                ELSE Returned(PyList(categorizations)),
                ambiguous_chunks)

AfterKeywords(texts, categorizations, resp) ==
    Escalate(texts, categorizations, IndicesOf(categorizations, "ambiguous"), resp)

categorize_chunks(texts, resp) == AfterKeywords(texts, KeywordStage(texts), resp)

----------------------------------------------------------------------------
(* Specification of validate_gst_data: one candidate invoice of a model    *)
(* response is drawn, and validated.                                       *)

GSTIN_A == "07ABCDE0001F1ZQ"

\* GSTIN_A with its last character changed
GSTIN_B == "07ABCDE0001F1ZR"

CandidateItems ==
    {MkDict([igst |-> i, cgst |-> PyFloat(Fin(900)), taxable_value |-> PyStr("100.50")]) :
        i \in {PyInt(18), PyInt(-1), PyStr("nan"), PyNone, Missing}}
    \cup {PyInt(1)}

CandidateItemLists ==
    {Missing, PyNone, PyList(<<>>), PyStr("x"), PyInt(3)}
    \cup {PyList(<<it>>) : it \in CandidateItems}
    \cup {PyList(<<MkDict([igst |-> PyInt(18)]), MkDict([sgst |-> PyStr("-2.5")])>>)}

CandidateInvoices ==
    {MkDict([invoice_no |-> no, invoice_date |-> dt, recipient_gstin |-> PyStr(GSTIN_A),
             recipient_name |-> PyStr(" Alpha "), invoice_value |-> v, items |-> its]) :
        no \in {Missing, PyStr(" inv-1 "), PyInt(7)},
        dt \in {PyStr("2024-03-10"), PyStr("10/03/2024"), PyStr("2024-02-30"), PyNone},
        v \in {Missing, PyInt(-5), PyStr("250000.01"), PyStr("abc"), PyFloat(NaN),
               PyFloat(PosInf), PyNone},
        its \in CandidateItemLists}

InitValidate ==
    /\ FilterIdle /\ FilingIdle /\ ChunkerIdle
    /\ invoice_data \in CandidateInvoices
    /\ validated = Pending
    /\ invoices = Idle /\ user_gstin = Idle /\ unique_invoices = Idle
    /\ extraction_result = Idle /\ categorized_result = Idle
    /\ api_key = Idle /\ content = Idle /\ response = Idle /\ gstr1_result = Idle
    /\ chunks = Idle /\ llm_response = Idle /\ categorization = Idle /\ model_calls = 0

Validate ==
    /\ UNCHANGED <<filterVars, filingVars, chunkerVars>>
    /\ IsPending(validated)
    /\ validated' = validate_gst_data(invoice_data)
    /\ UNCHANGED <<invoice_data, invoices, user_gstin, unique_invoices, extraction_result,
                   categorized_result, api_key, content, response, gstr1_result, chunks,
                   llm_response, categorization, model_calls>>

SpecValidate == InitValidate /\ [][Validate]_vars

\* the float fields of a dict d among the names fields
FloatFieldsOk(d, fields) ==
    \A f \in fields : f \in DOMAIN d /\ d[f].t = "float" /\ d[f].f.k = "fin" /\ d[f].f.n >= 0

\* C3: validate_gst_data never fails, and returns a record whose items is a
\* list and whose numeric fields, of the invoice and of each item, are
\* finite and non-negative.
C3_ValidateTotalFiniteNonNegative ==
    ~IsPending(validated) =>
        /\ ~validated.raised
        /\ validated.value.t = "dict"
        /\ LET d == validated.value.d
           IN  /\ FloatFieldsOk(d, numeric_fields)
               /\ "items" \in DOMAIN d /\ d["items"].t = "list"
               /\ \A i \in 1..Len(d["items"].l) :
                      FloatFieldsOk(d["items"].l[i].d, item_numeric_fields)

----------------------------------------------------------------------------
(* Specification of _deduplicate_invoices: a list of validated invoices    *)
(* is drawn, and deduplicated for one filer.                               *)

FILER_GSTIN == "29AAAAA0000A1Z5"

RegisteredCandidate(no, g, dt) ==
    MkDict([invoice_no |-> PyStr(no), invoice_date |-> PyStr(dt), recipient_gstin |-> PyStr(g),
            recipient_name |-> PyStr("Alpha"), invoice_value |-> PyInt(100)])

UnregisteredCandidate(no, nm, v) ==
    MkDict([invoice_no |-> PyStr(no), invoice_date |-> PyStr("2024-03-10"),
            recipient_gstin |-> PyNone, recipient_name |-> PyStr(nm), invoice_value |-> v])

\* "INV-001" and "inv/0 01" differ by a hyphen, a slash, whitespace and letter case only
RegisteredCandidates ==
    {RegisteredCandidate(no, g, "2024-03-10") :
        no \in {"INV-001", "inv/0 01", "INV002"}, g \in {GSTIN_A, GSTIN_B}}
    \cup {RegisteredCandidate("INV-001", GSTIN_A, "2024-03-11")}

UnregisteredCandidates ==
    {UnregisteredCandidate("INV-001", "Bob", PyInt(100)),
     UnregisteredCandidate("inv 001", " bob ", PyInt(100)),
     UnregisteredCandidate("INV-001", "Bob", PyStr("100.5"))}

\* validated invoices, as validate_gst_data returns them
ValidatedInvoices ==
    {validate_gst_data(c).value : c \in RegisteredCandidates \cup UnregisteredCandidates}

SeqsUpTo(S, n) == UNION {[1..k -> S] : k \in 0..n}

InitDedup ==
    /\ FilterIdle /\ FilingIdle /\ ChunkerIdle
    /\ invoices \in SeqsUpTo(ValidatedInvoices, MaxDedup)
    /\ user_gstin = FILER_GSTIN
    /\ unique_invoices = Pending
    /\ invoice_data = Idle /\ validated = Idle
    /\ extraction_result = Idle /\ categorized_result = Idle
    /\ api_key = Idle /\ content = Idle /\ response = Idle /\ gstr1_result = Idle
    /\ chunks = Idle /\ llm_response = Idle /\ categorization = Idle /\ model_calls = 0

Deduplicate ==
    /\ UNCHANGED <<filterVars, filingVars, chunkerVars>>
    /\ IsPending(unique_invoices)
    /\ unique_invoices' = _deduplicate_invoices(invoices, user_gstin)
    /\ UNCHANGED <<invoice_data, validated, invoices, user_gstin, extraction_result,
                   categorized_result, api_key, content, response, gstr1_result, chunks,
                   llm_response, categorization, model_calls>>

SpecDedup == InitDedup /\ [][Deduplicate]_vars

DedupDone == ~IsPending(unique_invoices)

\* the DuplicateKey of the i-th input invoice
KeyAt(i) == _get_duplicate_key(invoices[i], user_gstin).value.s

\* the positions of the input whose key occurs at no earlier position
FirstOccurrences == {i \in 1..Len(invoices) : \A j \in 1..(i - 1) : KeyAt(j) # KeyAt(i)}

\* the n-th smallest element of the set of positions P
NthOf(P, n) == CHOOSE i \in P : Cardinality({j \in P : j < i}) = n - 1

\* C4: _deduplicate_invoices returns the subsequence of its input made of the
\* first invoice of each distinct DuplicateKey, in input order; no two
\* returned invoices share a key.
C4_DedupKeepsFirstOccurrences ==
    DedupDone =>
        /\ ~unique_invoices.raised
        /\ LET out == unique_invoices.value.l
           IN  /\ Len(out) = Cardinality(FirstOccurrences)
               /\ \A n \in 1..Len(out) : out[n] = invoices[NthOf(FirstOccurrences, n)]
               /\ \A m, n \in 1..Len(out) :
                      m # n => _get_duplicate_key(out[m], user_gstin).value.s
                               # _get_duplicate_key(out[n], user_gstin).value.s

\* a later invoice with the key of an earlier one was dropped, and an invoice with a new key kept
C4_Witness ==
    /\ DedupDone
    /\ Len(invoices) = 3 /\ Len(unique_invoices.value.l) = 2
    /\ invoices[1] # invoices[2] /\ KeyAt(1) = KeyAt(2) /\ KeyAt(3) # KeyAt(1)

\* the text of a str field of an invoice dict
FieldText(inv, key) == inv.d[key].s

\* a and b differ only by whitespace, hyphens, slashes or letter case
SameUpToFormatting(a, b) ==
    Lower(RemoveChars(a, {" ", "\n", "\t", "-", "/"})) = Lower(RemoveChars(b, {" ", "\n", "\t", "-", "/"}))

\* a and b have the same length and differ at exactly one position
DifferInOneChar(a, b) ==
    Len(a) = Len(b) /\ Cardinality({i \in 1..Len(a) : Char(a, i) # Char(b, i)}) = 1

\* two input invoices with the same 15-character recipient ID and the same
\* date, whose numbers differ by formatting only
SameButFormatting(i, j) ==
    /\ Len(FieldText(invoices[i], "recipient_gstin")) = 15
    /\ FieldText(invoices[i], "recipient_gstin") = FieldText(invoices[j], "recipient_gstin")
    /\ invoices[i].d["invoice_date"] = invoices[j].d["invoice_date"]
    /\ FieldText(invoices[i], "invoice_no") # FieldText(invoices[j], "invoice_no")
    /\ SameUpToFormatting(FieldText(invoices[i], "invoice_no"), FieldText(invoices[j], "invoice_no"))

\* two input invoices equal in everything but one character of their 15-character recipient IDs
SameButRecipient(i, j) ==
    /\ Len(FieldText(invoices[i], "recipient_gstin")) = 15
    /\ DifferInOneChar(FieldText(invoices[i], "recipient_gstin"),
                       FieldText(invoices[j], "recipient_gstin"))
    /\ [invoices[j].d EXCEPT !["recipient_gstin"] = invoices[i].d["recipient_gstin"]] = invoices[i].d

\* C5: invoices of the same filer, recipient ID (15 characters) and date whose
\* numbers differ only by whitespace, hyphens, slashes or case get the same
\* key, and of two such invoices only the first is kept; invoices that differ
\* in one character of the recipient ID only get different keys, and both of
\* two such invoices are kept.
C5_KeyStability ==
    DedupDone =>
        /\ \A i, j \in 1..Len(invoices) :
              /\ SameButFormatting(i, j) => KeyAt(i) = KeyAt(j)
              /\ SameButRecipient(i, j) => KeyAt(i) # KeyAt(j)
        /\ (Len(invoices) = 2 /\ SameButFormatting(1, 2)) =>
              unique_invoices.value.l = <<invoices[1]>>
        /\ (Len(invoices) = 2 /\ SameButRecipient(1, 2)) =>
              unique_invoices.value.l = invoices

\* both cases of C5 in one input: the second invoice repeats the first up to
\* the formatting of its number, the third changes one character of the recipient ID
C5_Witness ==
    /\ DedupDone
    /\ Len(invoices) = 3
    /\ SameButFormatting(1, 2) /\ SameButRecipient(1, 3)
    /\ unique_invoices.value.l = <<invoices[1], invoices[3]>>

----------------------------------------------------------------------------
(* Specification of _categorize_invoices: an extraction result is drawn,   *)
(* with validated invoices or invoices of the manual parser, and           *)
(* categorized.                                                            *)

\* a recipient identifier of 14 characters
GSTIN_SHORT == "07ABCDE0001F1Z"

CategorizeCandidate(g, v) ==
    MkDict([invoice_no |-> PyStr("INV-001"), invoice_date |-> PyStr("2024-03-10"),
            recipient_gstin |-> g, recipient_name |-> PyStr("Alpha"), invoice_value |-> v,
            items |-> PyList(<<MkDict([igst |-> PyInt(18), cgst |-> PyStr("4.5")])>>)])

\* an invoice dict as _manual_parse_invoices builds it: not validated, no GSTIN found
ManualStyleInvoice ==
    MkDict([invoice_no |-> PyStr("B7"), recipient_gstin |-> PyNone,
            recipient_name |-> PyStr("Unknown Customer"), place_of_supply |-> PyStr("Unknown"),
            invoice_value |-> PyFloat(Fin(25000001)),
            items |-> PyList(<<MkDict([igst |-> PyFloat(Fin(3750000)), cgst |-> PyInt(0),
                                       sgst |-> PyInt(0)])>>)])

CategorizeInvoices ==
    {validate_gst_data(c).value : c \in
        {CategorizeCandidate(PyStr(GSTIN_A), PyInt(300000)),
         CategorizeCandidate(PyStr(" " \o GSTIN_B \o " "), PyInt(100)),
         CategorizeCandidate(PyNone, PyInt(250000)),
         CategorizeCandidate(PyStr(""), PyStr("250000.01")),
         CategorizeCandidate(PyStr("null"), PyInt(300000)),
         CategorizeCandidate(PyStr("N/A"), PyInt(100)),
         CategorizeCandidate(PyStr("None"), PyFloat(NaN)),
         CategorizeCandidate(PyStr(GSTIN_SHORT), PyInt(300000)),
         CategorizeCandidate(PyStr(GSTIN_A \o "9"), PyFloat(PosInf)),
         CategorizeCandidate(PyStr(GSTIN_SHORT), PyInt(-5))}}
    \cup {ManualStyleInvoice}

InitCategorize ==
    /\ FilterIdle /\ FilingIdle /\ ChunkerIdle
    /\ \E invs \in SeqsUpTo(CategorizeInvoices, MaxCategorize), header \in {Missing, PyInt(99)} :
          extraction_result = MkDict([total_invoices |-> header, total_tax_amount |-> header,
                                      invoices |-> PyList(invs)])
    /\ categorized_result = Pending
    /\ invoice_data = Idle /\ validated = Idle
    /\ invoices = Idle /\ user_gstin = Idle /\ unique_invoices = Idle
    /\ api_key = Idle /\ content = Idle /\ response = Idle /\ gstr1_result = Idle
    /\ chunks = Idle /\ llm_response = Idle /\ categorization = Idle /\ model_calls = 0

Categorize ==
    /\ UNCHANGED <<filterVars, filingVars, chunkerVars>>
    /\ IsPending(categorized_result)
    /\ categorized_result' = _categorize_invoices(extraction_result)
    /\ UNCHANGED <<invoice_data, validated, invoices, user_gstin, unique_invoices,
                   extraction_result, api_key, content, response, gstr1_result, chunks,
                   llm_response, categorization, model_calls>>

SpecCategorize == InitCategorize /\ [][Categorize]_vars

CategorizeDone == ~IsPending(categorized_result)

\* the invoices handed to _categorize_invoices, and the entries of its result
InputInvoices == extraction_result.d["invoices"].l

Categorized == categorized_result.value.d

CategoryAt(i) == Categorized["invoices"].l[i].d["category"].s

\* the recipient identifier of an invoice dict, trimmed; empty when it is None
TrimmedRecipient(d) ==
    IF d["recipient_gstin"].t = "str" THEN Strip(d["recipient_gstin"].s) ELSE ""

IsRegistered(d) ==
    /\ TrimmedRecipient(d) # ""
    /\ Lower(TrimmedRecipient(d)) \notin {"null", "none", "n/a"}
    /\ Len(TrimmedRecipient(d)) = 15

\* invoice_value > 250000
AboveThreshold(d) ==
    LET v == d["invoice_value"].f
    IN  v.k = "inf" \/ (v.k = "fin" /\ v.n > 250000 * Scale)

TaggedAt(c) == {i \in 1..Len(Categorized["invoices"].l) : CategoryAt(i) = c}

\* the list `name` holds exactly the invoices tagged c, in input order, and `count` is its length
BucketIs(name, count, c) ==
    /\ Categorized[name].t = "list"
    /\ Len(Categorized[name].l) = Cardinality(TaggedAt(c))
    /\ \A n \in 1..Len(Categorized[name].l) : Categorized[name].l[n] = Categorized["invoices"].l[NthOf(TaggedAt(c), n)]
    /\ Categorized[count] = PyInt(Len(Categorized[name].l))

\* C7: b2b, b2cl and b2cs partition the input invoices: every invoice gets
\* one category tag and is in the list of that tag and no other, in input
\* order, and b2b_invoices + b2cl_invoices + b2cs_invoices = total_invoices
\* = the number of input invoices.
C7_BucketsPartitionInput ==
    CategorizeDone =>
        /\ ~categorized_result.raised
        /\ Len(Categorized["invoices"].l) = Len(InputInvoices)
        /\ \A i \in 1..Len(InputInvoices) :
              /\ CategoryAt(i) \in {"B2B", "B2CL", "B2CS"}
              /\ Categorized["invoices"].l[i].d = [category |-> PyStr(CategoryAt(i))] @@ InputInvoices[i].d
        /\ BucketIs("b2b", "b2b_invoices", "B2B")
        /\ BucketIs("b2cl", "b2cl_invoices", "B2CL")
        /\ BucketIs("b2cs", "b2cs_invoices", "B2CS")
        /\ Categorized["b2b_invoices"].i + Categorized["b2cl_invoices"].i + Categorized["b2cs_invoices"].i
              = Len(InputInvoices)
        /\ Categorized["total_invoices"] = PyInt(Len(InputInvoices))

\* two invoices of different categories, each in its own list only
C7_Witness ==
    /\ CategorizeDone
    /\ Len(InputInvoices) = 2
    /\ CategoryAt(1) = "B2CS" /\ CategoryAt(2) = "B2B"
    /\ Len(Categorized["b2b"].l) = 1 /\ Len(Categorized["b2cs"].l) = 1 /\ Len(Categorized["b2cl"].l) = 0

----------------------------------------------------------------------------
(* Specification of extract_gstr1_data: the environment (API key), the     *)
(* chunk text and the outcome of the model call are drawn, and the         *)
(* handler runs.                                                           *)

Section(no, date, gstin, total) ==
    [long |-> TRUE, invoice_no |-> no, date |-> date, gstin |-> gstin,
     recipient |-> PyStr(" Alpha Engineering "), place |-> PyNone, total |-> total]

Sections ==
    {Section(PyStr("A1"), PyStr("10-Mar-2024"), PyStr(GSTIN_A), PyStr("19,606.80")),
     Section(PyStr("B7"), PyStr("15/03/2024"), PyNone, PyStr("300000")),
     Section(PyStr("E5"), PyStr("31/02/2024"), PyNone, PyStr("500.00")),
     Section(PyStr("C3"), PyNone, PyNone, PyNone),
     Section(PyStr("D4"), PyNone, PyNone, PyStr(",")),
     [Section(PyStr("F6"), PyNone, PyNone, PyStr("100")) EXCEPT !.long = FALSE]}

ResponseItem == MkDict([product_name |-> PyStr("Hitachi Power Drill"), igst |-> PyFloat(Fin(199392)),
                        cgst |-> PyInt(0), sgst |-> PyStr("12.5")])

ResponseInvoice(no, g, v, items) ==
    MkDict([invoice_no |-> PyStr(no), invoice_date |-> PyStr("2025-08-24"), recipient_gstin |-> g,
            recipient_name |-> PyStr("M/s Alpha Engineering Pvt Ltd"), invoice_value |-> v,
            items |-> items])

\* entries of the `invoices` array of a response: two records that differ by
\* the formatting of the number only, an unregistered one, a record whose
\* items is null, and an entry that is not a record
ResponseEntries ==
    {ResponseInvoice("B2B-001", PyStr(GSTIN_A), PyFloat(Fin(1960689)), PyList(<<ResponseItem>>)),
     ResponseInvoice("b2b/001", PyStr(GSTIN_A), PyFloat(Fin(1960689)), PyList(<<ResponseItem, ResponseItem>>)),
     ResponseInvoice("B2C-002", PyNone, PyStr("250000.01"), Missing),
     ResponseInvoice("B2C-003", PyNone, PyInt(10), PyNone),
     PyInt(5)}

\* the JSON objects of a response: header totals the model made up, and `invoices`
ResponseObjects ==
    {MkDict([total_invoices |-> header, total_tax_amount |-> header, invoices |-> invs]) :
        header \in {Missing, PyInt(99)},
        invs \in {Missing, PyNone, PyInt(5), PyStr("abc")}
                 \cup {PyList(l) : l \in SeqsUpTo(ResponseEntries, MaxResponseInvoices)}}

Text(tokens) == [kind |-> "text", text |-> tokens]

NoResponse == [kind |-> "none", text |-> <<>>]

CallRaises == [kind |-> "raise", text |-> <<>>]

\* outcomes of the call that hold no JSON object
BadResponses ==
    {CallRaises, NoResponse, Text(<<>>), Text(<<Prose>>), Text(<<FenceJson, Fence>>),
     Text(<<Fence, Prose, Json(MkDict([invoices |-> PyList(<<>>)])), Fence>>),
     Text(<<Json(PyList(<<>>))>>), Text(<<Json(PyInt(5))>>), Text(<<Json(PyNone)>>)}

\* outcomes of the call that hold a JSON object, bare or fenced
ObjectResponses ==
    {Text(<<Json(o)>>) : o \in ResponseObjects}
    \cup {Text(<<Prose, FenceJson, Json(o), Fence, Prose>>) : o \in ResponseObjects}
    \cup {Text(<<Fence, Json(o)>>) : o \in ResponseObjects}

\* the chunk texts an object response is paired with: the handler reads the
\* chunk text only when the try block fails
ContentsForObjects ==
    {<<>>, <<Section(PyStr("A1"), PyStr("10-Mar-2024"), PyStr(GSTIN_A), PyStr("19,606.80"))>>}

InitExtract ==
    /\ FilterIdle /\ FilingIdle /\ ChunkerIdle
    /\ api_key \in BOOLEAN
    /\ content \in SeqsUpTo(Sections, MaxSections)
    /\ response \in BadResponses \cup ObjectResponses
    /\ ~api_key => response = CallRaises
    /\ response \in ObjectResponses => content \in ContentsForObjects
    /\ user_gstin = FILER_GSTIN
    /\ gstr1_result = Pending
    /\ model_calls = 0
    /\ invoice_data = Idle /\ validated = Idle
    /\ invoices = Idle /\ unique_invoices = Idle
    /\ extraction_result = Idle /\ categorized_result = Idle
    /\ chunks = Idle /\ llm_response = Idle /\ categorization = Idle

\* the handler; generate_content is reached once, when the API key is set
ExtractGstr1Data ==
    /\ UNCHANGED <<filterVars, filingVars, chunkerVars>>
    /\ IsPending(gstr1_result)
    /\ gstr1_result' = extract_gstr1_data(content, api_key, response, user_gstin)
    /\ model_calls' = IF api_key THEN 1 ELSE 0
    /\ UNCHANGED <<invoice_data, validated, invoices, user_gstin, unique_invoices,
                   extraction_result, categorized_result, api_key, content, response, chunks,
                   llm_response, categorization>>

SpecExtract == InitExtract /\ [][ExtractGstr1Data]_vars

ExtractDone == ~IsPending(gstr1_result)

\* the try block failed, so the result comes from the manual fallback
FellBack == ExtractTry(api_key, response, user_gstin).raised

Gstr1 == gstr1_result.value.d

\* C1: whichever path produced them, no two invoices of the returned
\* `invoices` list have the same DuplicateKey.
C1_ReturnedInvoicesDistinctKeys ==
    (ExtractDone /\ ~gstr1_result.raised) =>
        \A i, j \in 1..Len(Gstr1["invoices"].l) :
            i # j => _get_duplicate_key(Gstr1["invoices"].l[i], user_gstin).value.s
                     # _get_duplicate_key(Gstr1["invoices"].l[j], user_gstin).value.s

IsListOfLen(v, n) == v.t = "list" /\ Len(v.l) = n.i

RECURSIVE TaxOfItems(_)
TaxOfItems(its) ==
    IF Len(its) = 0 THEN Fin(0)
    ELSE FAdd(FAdd(FAdd(FloatOf(its[1].d["igst"]), FloatOf(its[1].d["cgst"])),
                   FloatOf(its[1].d["sgst"])),
              TaxOfItems(Tail(its)))

RECURSIVE TaxOfInvoices(_)
TaxOfInvoices(l) ==
    IF Len(l) = 0 THEN Fin(0) ELSE FAdd(TaxOfItems(l[1].d["items"].l), TaxOfInvoices(Tail(l)))

\* the response with the header totals of its JSON object replaced by h
WithHeader(resp, h) ==
    [resp EXCEPT !.text =
        [i \in 1..Len(resp.text) |->
            IF resp.text[i].t = "json" /\ resp.text[i].v.t = "dict"
            THEN Json(PyDict([total_invoices |-> h, total_tax_amount |-> h] @@ resp.text[i].v.d))
            ELSE resp.text[i]]]

OtherHeaders == {PyInt(7), PyFloat(Fin(12345)), PyStr("n/a"), PyNone}

\* C8: the returned totals are recomputed from the returned invoices:
\* total_invoices is their number and total_tax_amount the sum of igst +
\* cgst + sgst over all their items, and a response with the same invoices
\* and other header totals gives the same returned totals.
C8_TotalsRecomputed ==
    (ExtractDone /\ ~gstr1_result.raised) =>
        /\ Gstr1["total_invoices"] = PyInt(Len(Gstr1["invoices"].l))
        /\ Gstr1["total_tax_amount"] = PyFloat(TaxOfInvoices(Gstr1["invoices"].l))
        /\ \A h \in OtherHeaders :
              LET other == extract_gstr1_data(content, api_key, WithHeader(response, h), user_gstin)
              IN  /\ ~other.raised
                  /\ other.value.d["total_invoices"] = Gstr1["total_invoices"]
                  /\ other.value.d["total_tax_amount"] = Gstr1["total_tax_amount"]

\* a response whose header totals are wrong, read on the model path
C8_Witness ==
    /\ ExtractDone /\ ~FellBack
    /\ response.kind = "text" /\ Len(response.text) = 1
    /\ Get(response.text[1].v.d, "total_invoices", PyNone) = PyInt(99)
    /\ Get(response.text[1].v.d, "total_tax_amount", PyNone) = PyInt(99)
    /\ Len(Gstr1["invoices"].l) = 2
    /\ Gstr1["total_invoices"] = PyInt(2)
    /\ Gstr1["total_tax_amount"].f.n > 0

----------------------------------------------------------------------------
(* Specification of categorize_chunks: the chunk texts and the outcome of  *)
(* the model call are drawn, and the handler runs.                         *)

ChunkTexts ==
    {"TAX INVOICE sold to buyer",
     "Original For Recipient",
     "Tax Invoice GSTR-2",
     "tax invoice from supplier",
     "GSTR-2 purchase",
     "Inward Supply Invoice",
     "sale purchase",
     "terms apply",
     "vendor supplier",
     "customer",
     "purchased from supplier"}

ResultEntry(index, category, confidence, types) ==
    MkDict([chunk_index |-> index, category |-> category, confidence |-> confidence,
            detected_data_types |-> types])

Inward0 == ResultEntry(PyInt(0), PyStr("gstr2"), PyFloat(Fin(30)), Missing)

Outward1 == ResultEntry(PyInt(1), PyStr("gstr1"), PyFloat(Fin(95)), PyList(<<PyStr("sale")>>))

\* the lists `results` of a response: entries for the first and the second
\* chunk, for the last (-1), for a chunk that does not exist, with an index
\* that is a string, without an index, without the labels being a list, with
\* a confidence that is no number, an entry that is no record
ResultLists ==
    {<<>>, <<Inward0>>, <<Outward1>>, <<Inward0, Outward1>>, <<Outward1, Inward0>>,
     <<Inward0, ResultEntry(PyInt(0), PyStr("irrelevant"), PyInt(1), PyList(<<>>))>>,
     <<ResultEntry(PyInt(-1), PyStr("irrelevant"), PyFloat(Fin(50)), PyList(<<>>))>>,
     <<ResultEntry(PyInt(5), PyStr("gstr1"), PyFloat(Fin(50)), Missing)>>,
     <<ResultEntry(PyStr("0"), PyStr("gstr1"), PyFloat(Fin(50)), Missing)>>,
     <<Inward0, ResultEntry(Missing, PyStr("gstr1"), PyFloat(Fin(50)), Missing)>>,
     <<ResultEntry(PyInt(0), PyStr("gstr1"), PyFloat(Fin(70)), PyNone)>>,
     <<ResultEntry(PyInt(0), PyStr("ambiguous"), PyStr("high"), Missing)>>,
     <<Outward1, PyInt(5)>>}

LlmRaises == [kind |-> "raise", v |-> PyNone]

LlmText(v) == [kind |-> "json", v |-> v]

LlmResponses ==
    {LlmRaises, [kind |-> "nomatch", v |-> PyNone], [kind |-> "invalid", v |-> PyNone],
     LlmText(PyDict(EmptyDict)), LlmText(MkDict([results |-> PyNone]))}
    \cup {LlmText(MkDict([results |-> PyList(l)])) : l \in ResultLists}

\* a chunk the keyword stage leaves ambiguous: only then is the model called
HasAmbiguous(texts) ==
    \E i \in 1..Len(texts) : _keyword_filter(texts[i], i - 1).d["category"] = PyStr("ambiguous")

InitClassify ==
    /\ FilterIdle /\ FilingIdle /\ ChunkerIdle
    /\ chunks \in SeqsUpTo(ChunkTexts, MaxChunks)
    /\ llm_response \in LlmResponses
    /\ ~HasAmbiguous(chunks) => llm_response = LlmRaises
    /\ categorization = Pending
    /\ model_calls = 0
    /\ invoice_data = Idle /\ validated = Idle
    /\ invoices = Idle /\ user_gstin = Idle /\ unique_invoices = Idle
    /\ extraction_result = Idle /\ categorized_result = Idle
    /\ api_key = Idle /\ content = Idle /\ response = Idle /\ gstr1_result = Idle

\* the handler; generate_content is reached once, when a chunk is ambiguous
CategorizeChunks ==
    /\ UNCHANGED <<filterVars, filingVars, chunkerVars>>
    /\ IsPending(categorization)
    /\ categorization' = categorize_chunks(chunks, llm_response)
    /\ model_calls' = IF HasAmbiguous(chunks) THEN 1 ELSE 0
    /\ UNCHANGED <<invoice_data, validated, invoices, user_gstin, unique_invoices,
                   extraction_result, categorized_result, api_key, content, response,
                   gstr1_result, chunks, llm_response>>

SpecClassify == InitClassify /\ [][CategorizeChunks]_vars

ClassifyDone == ~IsPending(categorization)

IsStrong(result, category) ==
    /\ result.d["category"] = PyStr(category)
    /\ result.d["confidence"] = PyFloat(Fin(90))

HasOutwardPhrase(text) ==
    Contains(Lower(text), "tax invoice") \/ Contains(Lower(text), "original for recipient")

HasInwardPhrase(text) ==
    Contains(Lower(text), "gstr-2") \/ Contains(Lower(text), "inward supply invoice")

NoInwardKeyword(text) == \A k \in gstr2_keywords : ~Contains(Lower(text), k)

\* C9: every chunk that contains "tax invoice" or "original for recipient"
\* and no inward keyword has, in the result of categorize_chunks, category
\* gstr1, confidence 0.9 and method keyword_strong, whatever the model call gives.
C9_TaxInvoiceIsOutwardWhateverTheModel ==
    ClassifyDone =>
        \A i \in 1..Len(chunks) :
            (HasOutwardPhrase(chunks[i]) /\ NoInwardKeyword(chunks[i])) =>
                /\ ~categorization.raised
                /\ IsStrong(categorization.value.d["chunk_categorization"].l[i], "gstr1")
                /\ categorization.value.d["chunk_categorization"].l[i].d["method"] = PyStr("keyword_strong")

\* C10 as stated: every chunk that contains "gstr-2" or "inward supply
\* invoice" is gstr2 at 0.9 for _keyword_filter, whatever else it contains.
C10_InwardPhraseAlwaysInward ==
    \A i \in 1..Len(chunks) :
        HasInwardPhrase(chunks[i]) => IsStrong(_keyword_filter(chunks[i], i - 1), "gstr2")

\* C10, amended: every chunk that contains "gstr-2" or "inward supply
\* invoice" is gstr2 at 0.9 for _keyword_filter unless it also contains "tax
\* invoice" or "original for recipient", and then it is gstr1 at 0.9.
C10_InwardPhraseUnlessOutwardPhrase ==
    \A i \in 1..Len(chunks) :
        HasInwardPhrase(chunks[i]) =>
            IsStrong(_keyword_filter(chunks[i], i - 1),
                     IF HasOutwardPhrase(chunks[i]) THEN "gstr1" ELSE "gstr2")

\* the filter has run on a chunk with an inward phrase and other keywords,
\* and on a chunk with both phrases
C10_Witness ==
    /\ ClassifyDone /\ ~categorization.raised
    /\ Len(chunks) = 2
    /\ HasInwardPhrase(chunks[1]) /\ ~HasOutwardPhrase(chunks[1])
    /\ Contains(Lower(chunks[1]), "purchase")
    /\ IsStrong(categorization.value.d["chunk_categorization"].l[1], "gstr2")
    /\ HasInwardPhrase(chunks[2]) /\ HasOutwardPhrase(chunks[2])
    /\ IsStrong(categorization.value.d["chunk_categorization"].l[2], "gstr1")

ReturnedResults == categorization.value.d["chunk_categorization"].l

\* C11: no result returned by categorize_chunks has category ambiguous: each
\* has a category among gstr1, gstr2 and irrelevant, whatever the model call gives.
C11_NoAmbiguousReturned ==
    (ClassifyDone /\ ~categorization.raised) =>
        \A i \in 1..Len(ReturnedResults) :
            ReturnedResults[i].d["category"] \in {PyStr("gstr1"), PyStr("gstr2"), PyStr("irrelevant")}

\* an entry of the results that lacks a required field, or is no record
LacksFields(entry) ==
    entry.t # "dict" \/ {"chunk_index", "category", "confidence"} \ DOMAIN entry.d # {}

\* the response is not the expected structure: the call raised, the text
\* holds no JSON object or an invalid one, the object has no results array,
\* or an entry of the array lacks a required field
NotExpectedStructure(resp) ==
    \/ resp.kind \in {"raise", "nomatch", "invalid"}
    \/ "results" \notin DOMAIN resp.v.d
    \/ resp.v.d["results"].t # "list"
    \/ \E i \in 1..Len(resp.v.d["results"].l) : LacksFields(resp.v.d["results"].l[i])

IsFallback(result) ==
    /\ result.d["category"] = PyStr("irrelevant")
    /\ result.d["confidence"] = PyFloat(Fin(50))
    /\ result.d["method"] = PyStr("fallback")

\* C12: when the response is not the expected structure, every chunk the
\* keyword stage marked ambiguous is returned irrelevant, at 0.5, by fallback.
C12_MalformedResponseFallsBack ==
    (ClassifyDone /\ NotExpectedStructure(llm_response)) =>
        /\ ~categorization.raised
        /\ \A i \in 1..Len(chunks) :
              _keyword_filter(chunks[i], i - 1).d["category"] = PyStr("ambiguous")
                  => IsFallback(ReturnedResults[i])

\* C13: categorize_chunks returns, without raising, a chunk_categorization
\* list of as many results as chunks, the i-th with chunk_index i.
C13_OneResultPerChunkInOrder ==
    ClassifyDone =>
        /\ ~categorization.raised
        /\ Len(ReturnedResults) = Len(chunks)
        /\ \A i \in 1..Len(chunks) : ReturnedResults[i].d["chunk_index"] = PyInt(i - 1)

----------------------------------------------------------------------------
(* The regular expressions of DateFilteringAgent.  A pattern is a sequence *)
(* of alternatives tried in order, an alternative a sequence of atoms: a   *)
(* word boundary, or lo to hi characters of a class, matched greedily with *)
(* backtracking as the re module does.                                     *)

WordChars ==
    {Char(LowerLetters, i) : i \in 1..Len(LowerLetters)}
        \cup {Char(UpperLetters, i) : i \in 1..Len(UpperLetters)}
        \cup {Char(Digits, i) : i \in 1..Len(Digits)} \cup {"_"}

DigitChars == {Char(Digits, i) : i \in 1..Len(Digits)}

\* \b
Boundary == [k |-> "b", set |-> {}, lo |-> 0, hi |-> 0]

\* lo to hi characters of the class set
Rep(set, lo, hi) == [k |-> "c", set |-> set, lo |-> lo, hi |-> hi]

IsWordAt(text, i) == i \in 1..Len(text) /\ Char(text, i) \in WordChars

\* \b holds before the character at pos
AtBoundary(text, pos) == IsWordAt(text, pos - 1) # IsWordAt(text, pos)

\* the number of characters of the class from pos on, at most hi
RECURSIVE Run(_, _, _, _)
Run(text, pos, set, hi) ==
    IF hi = 0 \/ pos > Len(text) \/ Char(text, pos) \notin set THEN 0
    ELSE 1 + Run(text, pos + 1, set, hi - 1)

\* the position after the match of the atoms from the i-th on at pos, 0 when
\* there is none; MatchCount tries n repetitions of the i-th atom, then fewer
RECURSIVE MatchAtoms(_, _, _, _)
RECURSIVE MatchCount(_, _, _, _, _)
MatchRetry(r, atoms, i, text, pos, n) ==
    IF r # 0 THEN r ELSE MatchCount(atoms, i, text, pos, n - 1)

MatchCount(atoms, i, text, pos, n) ==
    IF n < atoms[i].lo THEN 0
    ELSE MatchRetry(MatchAtoms(atoms, i + 1, text, pos + n), atoms, i, text, pos, n)

MatchAtoms(atoms, i, text, pos) ==
    IF i > Len(atoms) THEN pos
    ELSE IF atoms[i].k = "b"
         THEN (IF AtBoundary(text, pos) THEN MatchAtoms(atoms, i + 1, text, pos) ELSE 0)
         ELSE MatchCount(atoms, i, text, pos, Run(text, pos, atoms[i].set, atoms[i].hi))

\* the first alternative of the pattern, from the a-th on, that matches at pos
RECURSIVE MatchPattern(_, _, _, _)
MatchFirst(r, pattern, a, text, pos) ==
    IF r # 0 THEN r ELSE MatchPattern(pattern, a + 1, text, pos)

MatchPattern(pattern, a, text, pos) ==
    IF a > Len(pattern) THEN 0
    ELSE MatchFirst(MatchAtoms(pattern[a], 1, text, pos), pattern, a, text, pos)

\* re.findall(pattern, text): the matches from left to right, without overlap
RECURSIVE FindAll(_, _, _)
FindNext(pattern, text, pos, after) ==
    IF after = 0 THEN FindAll(pattern, text, pos + 1)
    ELSE <<SubSeq(text, pos, after - 1)>> \o FindAll(pattern, text, after)

FindAll(pattern, text, pos) ==
    IF pos > Len(text) THEN <<>>
    ELSE FindNext(pattern, text, pos, MatchPattern(pattern, 1, text, pos))

\* \d{lo,hi}, \w{3,9}, [/-], \., \s+, \s*, a comma, a colon
D(lo, hi) == Rep(DigitChars, lo, hi)

W39 == Rep(WordChars, 3, 9)

Sep == Rep({"/", "-"}, 1, 1)

Dot == Rep({"."}, 1, 1)

Spaces == Rep(Whitespace, 1, 64)

OptSpaces == Rep(Whitespace, 0, 64)

\* the patterns of _extract_all_dates_from_chunk, in its order
date_regexes ==
    << <<(<<Boundary, D(1, 2), Sep, D(1, 2), Sep, D(4, 4), Boundary>>)>>,
       <<(<<Boundary, D(1, 2), Dot, D(1, 2), Dot, D(4, 4), Boundary>>)>>,
       <<(<<Boundary, D(4, 4), Sep, D(1, 2), Sep, D(1, 2), Boundary>>)>>,
       <<(<<Boundary, D(4, 4), Dot, D(1, 2), Dot, D(1, 2), Boundary>>)>>,
       <<(<<Boundary, D(1, 2), Sep, W39, Sep, D(4, 4), Boundary>>)>>,
       <<(<<Boundary, D(1, 2), Spaces, W39, Spaces, D(4, 4), Boundary>>)>>,
       <<(<<Boundary, W39, Sep, D(1, 2), Sep, D(4, 4), Boundary>>)>>,
       <<(<<Boundary, W39, Spaces, D(1, 2), OptSpaces, Rep({","}, 0, 1), OptSpaces,
            D(4, 4), Boundary>>)>>,
       <<(<<Boundary, D(1, 2), Spaces, W39, OptSpaces, Rep({","}, 1, 1), OptSpaces,
            D(4, 4), Boundary>>)>>,
       <<(<<Boundary, W39, Spaces, D(4, 4), Boundary>>)>>,
       <<(<<Boundary, D(4, 4), Spaces, W39, Boundary>>)>>,
       <<(<<Boundary, D(1, 2), Sep, D(1, 2), Sep, D(2, 2), Boundary>>)>>,
       <<(<<Boundary, D(1, 2), Sep, D(1, 2), Sep, D(4, 4), Spaces, D(1, 2),
            Rep({":"}, 1, 1), D(2, 2), Rep({":"}, 1, 1), D(2, 2), Boundary>>),
         (<<Boundary, D(1, 2), Sep, D(1, 2), Sep, D(4, 4), Spaces, D(1, 2),
            Rep({":"}, 1, 1), D(2, 2), Boundary>>)>> >>

\* found_dates after the patterns from the i-th on
RECURSIVE ExtractFrom(_, _)
ExtractFrom(chunk, i) ==
    IF i > Len(date_regexes) THEN <<>>
    ELSE FindAll(date_regexes[i], chunk, 1) \o ExtractFrom(chunk, i + 1)

_extract_all_dates_from_chunk(chunk) == ExtractFrom(chunk, 1)

----------------------------------------------------------------------------
(* DateFilteringAgent._parse_date_flexible.  A datetime is the record of   *)
(* its year, month and day; the time of day plays no part in the filter.   *)

\* None
NoDate == [y |-> 0, m |-> 0, d |-> 0]

\* a text whose parse is not described here: a month name, a two-digit year,
\* mixed separators, a text with words
Unmodelled == [y |-> -1, m |-> 0, d |-> 0]

\* datetime(y, m, d), NoDate when it raises ValueError
DateOf(y, m, d) ==
    IF y \in 1..9999 /\ m \in 1..12 /\ d \in 1..DaysInMonth(y, m)
    THEN [y |-> y, m |-> m, d |-> d] ELSE NoDate

\* dates in calendar order
DateKey(dt) == dt.y * 10000 + dt.m * 100 + dt.d

\* dateutil's resolve_ymd on three numbers read from left to right, la and lc
\* being the numbers of digits of the first and the last (dayfirst and
\* yearfirst are off): a number of more than two digits is the year, two of
\* them are an error; with the year last, a first number above 12 is the day,
\* and otherwise the first number is the MONTH
ResolveYmd(a, b, c, la, lc) ==
    IF la > 2 /\ lc > 2 THEN NoDate
    ELSE IF la > 2 THEN DateOf(a, b, c)
    ELSE IF lc <= 2 THEN Unmodelled
    ELSE IF a > 31 THEN NoDate
    ELSE IF a > 12 THEN DateOf(c, b, a)
    ELSE DateOf(c, a, b)

\* the fields are digits, the middle one a month or a day
NumericFields(f) ==
    /\ Len(f) = 3
    /\ \A i \in 1..3 : IsDigits(f[i])
    /\ Len(f[2]) <= 2

\* date_parser.parse(date_str, fuzzy=True) on the fields the separator cuts
DateutilFields(f) ==
    IF NumericFields(f)
    THEN ResolveYmd(DigitsToInt(f[1]), DigitsToInt(f[2]), DigitsToInt(f[3]), Len(f[1]), Len(f[3]))
    ELSE Unmodelled

\* the first character of the text that is no digit, "" when it has none
RECURSIVE FirstNonDigit(_)
FirstNonDigit(text) ==
    IF text = "" THEN ""
    ELSE IF Char(text, 1) \in DigitChars THEN FirstNonDigit(Rest(text))
    ELSE Char(text, 1)

DateutilAt(date_str, sep) ==
    IF sep \in {"/", "-", "."} THEN DateutilFields(SplitOn(date_str, sep)) ELSE Unmodelled

\* date_parser.parse(date_str, fuzzy=True): NoDate when it raises
DateutilParse(date_str) == DateutilAt(date_str, FirstNonDigit(date_str))

\* strptime with day, month and four-digit year fields
StrptimeDMY(ds, ms, ys) ==
    IF StrptimeFields(ys, ms, ds)
    THEN [y |-> DigitsToInt(ys), m |-> DigitsToInt(ms), d |-> DigitsToInt(ds)] ELSE NoDate

FirstDate(dt, otherwise) == IF dt # NoDate THEN dt ELSE otherwise

\* the loop over common_formats for three numeric fields: %d %m %Y, then
\* %Y %m %d, then %m %d %Y (the %y formats need a two-digit year field)
StrptimeFormats(f) ==
    FirstDate(StrptimeDMY(f[1], f[2], f[3]),
        FirstDate(StrptimeDMY(f[3], f[2], f[1]), StrptimeDMY(f[2], f[1], f[3])))

\* the manual formats after dateutil raised
ManualFormats(dt, date_str, sep) ==
    IF dt # NoDate THEN dt ELSE StrptimeFormats(SplitOn(date_str, sep))

ParseStrippedDate(date_str) ==
    ManualFormats(DateutilParse(date_str), date_str, FirstNonDigit(date_str))

_parse_date_flexible(date_str) ==
    IF Strip(date_str) = "" THEN NoDate ELSE ParseStrippedDate(Strip(date_str))

----------------------------------------------------------------------------
(* DateFilteringAgent.filter_chunks_by_period: the period and its patterns *)

\* calendar.month_name
MonthName ==
    <<"January", "February", "March", "April", "May", "June", "July", "August",
      "September", "October", "November", "December">>

\* months.get(month_name.lower()); 0 stands for None
_month_name_to_number(month_name) ==
    IF \E i \in 1..12 : Lower(MonthName[i]) = Lower(month_name)
    THEN CHOOSE i \in 1..12 : Lower(MonthName[i]) = Lower(month_name) ELSE 0

\* int(s) of a str: surrounding whitespace and a sign are accepted
IntText(stripped) ==
    IF stripped # "" /\ Char(stripped, 1) \in {"+", "-"} THEN Rest(stripped) ELSE stripped

IntOk(s) == IsDigits(IntText(Strip(s)))

IntOf(s) ==
    IF Strip(s) # "" /\ Char(Strip(s), 1) = "-" THEN 0 - DigitsToInt(IntText(Strip(s)))
    ELSE DigitsToInt(IntText(Strip(s)))

\* calendar.monthrange(year, month)[1]: the leap-year rule holds for every int
MonthRange(year, month) == DaysInMonth(year, month)

\* the four patterns of one day of the month
DayPatterns(day, month_num, year) ==
    <<Pad2(day) \o "/" \o Pad2(month_num) \o "/" \o year,
      IntToDigits(day) \o "/" \o IntToDigits(month_num) \o "/" \o year,
      year \o "-" \o Pad2(month_num) \o "-" \o Pad2(day),
      Pad2(day) \o "." \o Pad2(month_num) \o "." \o year>>

\* _has_relevant_dates reads date_patterns[:20] and nothing else reads the
\* list, so the loops that build it are followed until it holds that many
PATTERNS_READ == 20

\* the loop over the days from day to last, patterns being the list so far
RECURSIVE DayLoop(_, _, _, _, _)
DayLoop(day, last, month_num, year, patterns) ==
    IF day > last \/ Len(patterns) >= PATTERNS_READ THEN patterns
    ELSE DayLoop(day + 1, last, month_num, year, patterns \o DayPatterns(day, month_num, year))

\* the patterns of the month alone
MonthPatterns(month_num, year, month_abbr, month_name) ==
    <<Pad2(month_num) \o "/" \o year,
      IntToDigits(month_num) \o "/" \o year,
      year \o "-" \o Pad2(month_num),
      month_abbr \o " " \o year,
      month_name \o " " \o year,
      month_abbr \o "." \o year,
      Pad2(month_num) \o "." \o year>>

\* year is the str handed in; int(year) raises ValueError when it is no number
_generate_date_patterns(month_num, year) ==
    IF ~IntOk(year) THEN Raised("ValueError")
    ELSE Returned(
            DayLoop(1, Min(MonthRange(IntOf(year), month_num) + 1, 32) - 1, month_num, year,
                    MonthPatterns(month_num, year, SubSeq(Lower(MonthName[month_num]), 1, 3),
                                  Lower(MonthName[month_num]))))

\* current_dt + timedelta(days=1)
NextDay(dt) ==
    IF dt.d < DaysInMonth(dt.y, dt.m) THEN [dt EXCEPT !.d = dt.d + 1]
    ELSE IF dt.m < 12 THEN [dt EXCEPT !.m = dt.m + 1, !.d = 1]
    ELSE [y |-> dt.y + 1, m |-> 1, d |-> 1]

MonthAbbrName(m) == SubSeq(MonthName[m], 1, 3)

\* strftime("%Y") of a year from 1000 on
Year4(y) == IntToDigits(y)

\* the twelve strftime formats of one day of the range
RangeDayPatterns(dt) ==
    <<Pad2(dt.d) \o "/" \o Pad2(dt.m) \o "/" \o Year4(dt.y),
      Pad2(dt.d) \o "-" \o Pad2(dt.m) \o "-" \o Year4(dt.y),
      Pad2(dt.d) \o "." \o Pad2(dt.m) \o "." \o Year4(dt.y),
      Year4(dt.y) \o "-" \o Pad2(dt.m) \o "-" \o Pad2(dt.d),
      Pad2(dt.d) \o " " \o MonthName[dt.m] \o " " \o Year4(dt.y),
      Pad2(dt.d) \o " " \o MonthAbbrName(dt.m) \o " " \o Year4(dt.y),
      MonthName[dt.m] \o " " \o Pad2(dt.d) \o ", " \o Year4(dt.y),
      MonthAbbrName(dt.m) \o " " \o Pad2(dt.d) \o ", " \o Year4(dt.y),
      Pad2(dt.d) \o "-" \o MonthAbbrName(dt.m) \o "-" \o Year4(dt.y),
      Pad2(dt.d) \o "-" \o MonthName[dt.m] \o "-" \o Year4(dt.y),
      MonthAbbrName(dt.m) \o "-" \o Pad2(dt.d) \o "-" \o Year4(dt.y),
      MonthName[dt.m] \o "-" \o Pad2(dt.d) \o "-" \o Year4(dt.y)>>

\* the while loop: it stops after the day that takes the list past 1000
\* patterns; here, once the patterns that are read are there
RECURSIVE RangeLoop(_, _, _)
RangeLoop(current_dt, end_dt, patterns) ==
    IF DateKey(current_dt) > DateKey(end_dt) \/ Len(patterns) > 1000
       \/ Len(patterns) >= PATTERNS_READ THEN patterns
    ELSE RangeLoop(NextDay(current_dt), end_dt, patterns \o RangeDayPatterns(current_dt))

_generate_date_range_patterns(start_dt, end_dt) == RangeLoop(start_dt, end_dt, <<>>)

\* datetime.strptime(s, "%Y-%m-%d"), NoDate when it raises ValueError
StrptimeIso(s) ==
    IF StrptimeIsoOk(s)
    THEN [y |-> DigitsToInt(SplitOn(s, "-")[1]), m |-> DigitsToInt(SplitOn(s, "-")[2]),
          d |-> DigitsToInt(SplitOn(s, "-")[3])]
    ELSE NoDate

\* datetime.strptime(s, "%d/%m/%Y") on the fields the slashes cut
StrptimeSlashFields(f) == IF Len(f) = 3 THEN StrptimeDMY(f[1], f[2], f[3]) ELSE NoDate

StrptimeSlash(s) == StrptimeSlashFields(SplitOn(s, "/"))

\* the outcomes of the entry: an error dict, or a period with its description
PeriodError(msg) == [kind |-> "error", msg |-> msg]

FormatError == "Invalid date format. Use YYYY-MM-DD or DD/MM/YYYY format"

\* the try block of the range mode, both dates parsed in the format of the
\* first; the text of the ValueError is not spelled out
RangeOf(start_dt, end_dt, desc) ==
    IF start_dt = NoDate \/ end_dt = NoDate THEN PeriodError(FormatError \o ": ValueError")
    ELSE [kind |-> "range", start_dt |-> start_dt, end_dt |-> end_dt, desc |-> desc]

RangePeriod(start, end) ==
    IF Contains(start, "-")
    THEN RangeOf(StrptimeIso(start), StrptimeIso(end), start \o " to " \o end)
    ELSE IF Contains(start, "/")
    THEN RangeOf(StrptimeSlash(start), StrptimeSlash(end), start \o " to " \o end)
    ELSE PeriodError(FormatError)

MonthOfNumber(month_num, month, year) ==
    IF month_num = 0 THEN PeriodError("Invalid month: " \o month)
    ELSE [kind |-> "month", month_num |-> month_num, desc |-> month \o " " \o year]

\* lines 47-74, without the generation of the patterns
PeriodOf(month, year, start, end) ==
    IF Truthy(start) /\ Truthy(end) THEN RangePeriod(start.s, end.s)
    ELSE IF Truthy(month) /\ Truthy(year)
    THEN MonthOfNumber(_month_name_to_number(month.s), month.s, year.s)
    ELSE PeriodError("Either provide filing_month + filing_year OR start_date + end_date")

\* date_patterns of a period that is no error
DatePatternsOf(per, year) ==
    IF per.kind = "range" THEN Returned(_generate_date_range_patterns(per.start_dt, per.end_dt))
    ELSE _generate_date_patterns(per.month_num, year.s)

date_keywords ==
    {"date", "invoice date", "transaction date", "bill date", "dated", "invoice no",
     "receipt date", "payment date", "due date", "issued on", "generated on", "created on",
     "timestamp"}

\* date_patterns[:20]
First20(date_patterns) == SubSeq(date_patterns, 1, Min(PATTERNS_READ, Len(date_patterns)))

HasPattern(chunk_lower, first) ==
    \E i \in 1..Len(first) : Contains(chunk_lower, Lower(first[i]))

_has_relevant_dates(chunk, date_patterns) ==
    \/ HasPattern(Lower(chunk), First20(date_patterns))
    \/ _extract_all_dates_from_chunk(chunk) # <<>>
    \/ ContainsAny(Lower(chunk), date_keywords)

\* step 1: the (index, chunk) pairs kept, from the i-th chunk on
RECURSIVE RelevantFrom(_, _, _)
RelevantFrom(texts, i, date_patterns) ==
    IF i > Len(texts) THEN <<>>
    ELSE (IF _has_relevant_dates(texts[i], date_patterns) THEN << <<i - 1, texts[i]>> >> ELSE <<>>)
         \o RelevantFrom(texts, i + 1, date_patterns)

----------------------------------------------------------------------------
(* DateFilteringAgent._ai_date_filtering and _ai_date_range_filtering      *)

\* the dict a call returns; ai_analysis is Missing where the dict has no such key
FilterResult(filtered, desc, total_original, notes, ai_analysis) ==
    MkDict([filtered_chunks |-> PyList(filtered),
            filing_period |-> PyStr(desc),
            total_original_chunks |-> PyInt(total_original),
            total_filtered_chunks |-> PyInt(Len(filtered)),
            notes |-> PyStr(notes),
            ai_analysis |-> ai_analysis])

\* [chunk_idx for chunk_idx, _ in pairs]
IndicesOfPairs(pairs) == [i \in 1..Len(pairs) |-> PyInt(pairs[i][1])]

\* lines 91-97
NoneFound(desc, total) ==
    FilterResult(<<>>, desc, total, "No transactions found for " \o desc, Missing)

\* parsed_date.strftime('%B').lower() == filing_month.lower() and
\* str(parsed_date.year) == filing_year, for a parsed_date that is not None
MonthMatches(parsed_date, month, year) ==
    /\ parsed_date.y > 0
    /\ Lower(MonthName[parsed_date.m]) = Lower(month)
    /\ IntToDigits(parsed_date.y) = year

\* start_dt.date() <= date_obj.date() <= end_dt.date(), False when a bound is None
InRange(date_obj, start_dt, end_dt) ==
    /\ start_dt.y > 0 /\ end_dt.y > 0
    /\ DateKey(start_dt) <= DateKey(date_obj) /\ DateKey(date_obj) <= DateKey(end_dt)

\* the bounds are parsed again, from the strs handed in
_is_date_in_range(date_obj, start, end) ==
    InRange(date_obj, _parse_date_flexible(start), _parse_date_flexible(end))

\* chunk_has_valid_dates after the loop over extracted_dates
MonthDateAmong(extracted_dates, month, year) ==
    \E i \in 1..Len(extracted_dates) :
        MonthMatches(_parse_date_flexible(extracted_dates[i]), month, year)

RangeDateIs(parsed_date, start, end) ==
    parsed_date.y > 0 /\ _is_date_in_range(parsed_date, start, end)

RangeDateAmong(extracted_dates, start, end) ==
    \E i \in 1..Len(extracted_dates) :
        RangeDateIs(_parse_date_flexible(extracted_dates[i]), start, end)

\* the chunk passes the local pre-filter of the mode
HasValidDates(chunk, ranged, month, year, start, end) ==
    IF ranged THEN RangeDateAmong(_extract_all_dates_from_chunk(chunk), start.s, end.s)
    ELSE MonthDateAmong(_extract_all_dates_from_chunk(chunk), month.s, year.s)

\* pre_filtered_chunks, from the i-th relevant chunk on
RECURSIVE PreFilter(_, _, _, _, _, _, _)
PreFilter(relevant, i, ranged, month, year, start, end) ==
    IF i > Len(relevant) THEN <<>>
    ELSE (IF HasValidDates(relevant[i][2], ranged, month, year, start, end)
          THEN <<relevant[i]>> ELSE <<>>)
         \o PreFilter(relevant, i + 1, ranged, month, year, start, end)

LocalNotes(n, ranged, desc) ==
    "Pre-filtered " \o IntToDigits(n) \o " chunks using local date parsing for "
        \o (IF ranged THEN "range " ELSE "") \o desc

\* lines 292-299 and 395-402
PreFiltered(pre_filtered_chunks, relevant, ranged, desc) ==
    FilterResult(IndicesOfPairs(pre_filtered_chunks), desc, Len(relevant),
                 LocalNotes(Len(pre_filtered_chunks), ranged, desc), Missing)

\* the key of a result that the mode reads
FlagOf(ranged) ==
    IF ranged THEN "contains_date_range_dates" ELSE "contains_filing_period_dates"

\* relevant_chunks[result_idx][0] of an int: a negative index counts from the end
Subscript(relevant, i) ==
    IF i >= Len(relevant) \/ i < 0 - Len(relevant) THEN Raised("IndexError")
    ELSE Returned(PyInt(relevant[(IF i < 0 THEN i + Len(relevant) ELSE i) + 1][1]))

\* result_idx < len(relevant_chunks) and the subscript: Returned(PyNone) when
\* the index is not below the length
IndexedChunk(result_idx, relevant) ==
    CASE result_idx.t = "int" ->
            IF result_idx.i < Len(relevant) THEN Subscript(relevant, result_idx.i)
            ELSE Returned(PyNone)
      [] result_idx.t = "bool" ->
            IF (IF result_idx.b THEN 1 ELSE 0) < Len(relevant)
            THEN Subscript(relevant, IF result_idx.b THEN 1 ELSE 0) ELSE Returned(PyNone)
      [] result_idx.t = "float" ->
            IF FGt(Fin(Len(relevant) * Scale), result_idx.f) THEN Raised("TypeError")
            ELSE Returned(PyNone)
      [] OTHER -> Raised("TypeError")

\* one turn of the loop over filtered_results
AiEntry(result, flag, relevant) ==
    IF result.t # "dict" THEN Raised("AttributeError")
    ELSE IF ~Truthy(Get(result.d, flag, PyBool(FALSE))) THEN Returned(PyNone)
    ELSE IF "chunk_index" \notin DOMAIN result.d THEN Raised("KeyError")
    ELSE IndexedChunk(result.d["chunk_index"], relevant)

RECURSIVE AiLoop(_, _, _, _, _)
AiStep(results, i, flag, relevant, indices, entry) ==
    IF entry.raised THEN entry
    ELSE AiLoop(results, i + 1, flag, relevant,
                IF entry.value.t = "none" THEN indices ELSE Append(indices, entry.value))

\* filtered_chunk_indices after the results from the i-th on
AiLoop(results, i, flag, relevant, indices) ==
    IF i > Len(results) THEN Returned(PyList(indices))
    ELSE AiStep(results, i, flag, relevant, indices, AiEntry(results[i], flag, relevant))

AiResults(results, flag, relevant) ==
    IF results.raised THEN results ELSE AiLoop(results.value, 1, flag, relevant, <<>>)

\* the try block: the filtered indices, None when the text holds no JSON
\* object, or the exception that leaves it
AiTry(resp, flag, relevant) ==
    IF resp.kind = "raise" THEN Raised("Exception")
    ELSE IF resp.kind = "nomatch" THEN Returned(PyNone)
    ELSE IF resp.kind = "invalid" THEN Raised("JSONDecodeError")
    ELSE AiResults(Iterate(Get(resp.v.d, "filtered_results", PyList(<<>>))), flag, relevant)

AiNotes(n, ranged, desc) ==
    "AI filtered " \o IntToDigits(n) \o " chunks for "
        \o (IF ranged THEN "date range " ELSE "") \o desc

FallbackNotes(n, ranged) ==
    "Fallback: returned all " \o IntToDigits(n) \o " potentially relevant chunks"
        \o (IF ranged THEN " for date range" ELSE "")

\* the last return statement: every relevant chunk
FilterFallback(relevant, ranged, desc) ==
    FilterResult(IndicesOfPairs(relevant), desc, Len(relevant),
                 FallbackNotes(Len(relevant), ranged), Missing)

\* what the call returns once the try block is over
AiOutcome(attempt, resp, relevant, ranged, desc) ==
    IF attempt.raised \/ attempt.value.t = "none" THEN FilterFallback(relevant, ranged, desc)
    ELSE FilterResult(attempt.value.l, desc, Len(relevant),
                      AiNotes(Len(attempt.value.l), ranged, desc), resp.v)

\* lines 337-374 and 440-477
AiFiltered(resp, relevant, ranged, desc) ==
    AiOutcome(AiTry(resp, FlagOf(ranged), relevant), resp, relevant, ranged, desc)

----------------------------------------------------------------------------
(* Specification of one call of filter_chunks_by_period, in three steps:   *)
(* the entry with step 1, the local pre-filter, and the model call.        *)

\* start_date and end_date (line 85)
Ranged(start, end) == Truthy(start) /\ Truthy(end)

Entered(at, relevant, result) == [pc |-> at, relevant |-> relevant, result |-> result]

EnterRelevant(per, texts, relevant) ==
    IF relevant = <<>> THEN Entered("done", <<>>, Returned(NoneFound(per.desc, Len(texts))))
    ELSE Entered("local", relevant, Pending)

EnterPatterns(per, texts, date_patterns) ==
    IF date_patterns.raised THEN Entered("done", <<>>, Raised("ValueError"))
    ELSE EnterRelevant(per, texts, RelevantFrom(texts, 1, date_patterns.value))

\* lines 44-97 up to the call of the pre-filter
Enter(per, texts, year) ==
    IF per.kind = "error"
    THEN Entered("done", <<>>, Returned(MkDict([error |-> PyStr(per.msg)])))
    ELSE EnterPatterns(per, texts, DatePatternsOf(per, year))

\* the period parameters: None, well-formed and ill-formed strs
Months == {PyNone, PyStr("March"), PyStr("april"), PyStr("Mar")}

Years == {PyNone, PyStr("2024"), PyStr("20x4"), PyStr("")}

Starts == {PyNone, PyStr("2024-03-01"), PyStr("01/03/2024"), PyStr("01.03.2024"),
           PyStr("31/02/2024")}

Ends == {PyNone, PyStr("2024-03-31"), PyStr("31/03/2024"), PyStr("2024-02-30")}

\* the periods whose chunks are varied: two months, and the range of a
\* month in both formats
Periods ==
    {<<PyStr("March"), PyStr("2024"), PyNone, PyNone>>,
     <<PyStr("april"), PyStr("2024"), PyNone, PyNone>>,
     <<PyNone, PyNone, PyStr("2024-03-01"), PyStr("2024-03-31")>>,
     <<PyNone, PyNone, PyStr("01/03/2024"), PyStr("31/03/2024")>>}

\* ranges from and to a day that chunks are dated, in both formats
EdgePeriods ==
    {<<PyNone, PyNone, PyStr("2024-03-15"), PyStr("2024-04-10")>>,
     <<PyNone, PyNone, PyStr("15/03/2024"), PyStr("10/04/2024")>>,
     <<PyNone, PyNone, PyStr("2024-02-16"), PyStr("2024-03-14")>>,
     <<PyNone, PyNone, PyStr("16/02/2024"), PyStr("14/03/2024")>>}

\* dd/mm/yyyy
DateText(d, m, y) == Pad2(d) \o "/" \o Pad2(m) \o "/" \o IntToDigits(y)

\* chunk texts: with a date in March, in February, in April in ISO form,
\* with a date keyword and no date, and with neither
FilterTexts ==
    {"dated 15/03/2024", "on 15/02/2024", "on 2024-04-10", "invoice date pending",
     "terms apply"}

\* the lists filtered_results of a response
Kept(index) == MkDict([chunk_index |-> index, contains_filing_period_dates |-> PyBool(TRUE),
                       contains_date_range_dates |-> PyBool(TRUE)])

FilteredLists ==
    {<<Kept(PyInt(0))>>, <<Kept(PyInt(1)), Kept(PyInt(0))>>, <<Kept(PyInt(-1))>>,
     <<Kept(PyInt(-4))>>, <<Kept(PyInt(7))>>, <<Kept(PyStr("0"))>>, <<Kept(Missing)>>,
     <<MkDict([chunk_index |-> PyInt(0), contains_filing_period_dates |-> PyBool(FALSE),
               contains_date_range_dates |-> PyBool(FALSE)])>>,
     <<Kept(PyInt(0)), PyInt(1)>>}

FilterResponses ==
    {LlmRaises, [kind |-> "nomatch", v |-> PyNone], [kind |-> "invalid", v |-> PyNone],
     LlmText(PyDict(EmptyDict)), LlmText(MkDict([filtered_results |-> PyNone]))}
    \cup {LlmText(MkDict([filtered_results |-> PyList(l)])) : l \in FilteredLists}

\* the call reaches generate_content: step 1 keeps a chunk and the local
\* pre-filter keeps none
ReachesModel(entered, month, year, start, end) ==
    /\ entered.pc = "local"
    /\ PreFilter(entered.relevant, 1, Ranged(start, end), month, year, start, end) = <<>>

NeedsModel(texts, month, year, start, end) ==
    ReachesModel(Enter(PeriodOf(month, year, start, end), texts, year), month, year, start, end)

\* every combination of the parameters on one list of chunks; every day of a
\* month on a chunk dated that day; the ranges that end on the day of a chunk
FilterInputs ==
    {<<month, year, start, end, <<"dated 15/03/2024", "terms apply">> >> :
        month \in Months, year \in Years, start \in Starts, end \in Ends}
    \cup {<<PyStr("March"), PyStr("2024"), PyNone, PyNone, <<"on " \o DateText(d, 3, 2024)>> >> :
            d \in 1..31}
    \cup {<<p[1], p[2], p[3], p[4], <<text>> >> : p \in EdgePeriods, text \in FilterTexts}

\* the periods on every list of chunks
VariedInputs ==
    {<<p[1], p[2], p[3], p[4], texts>> :
        p \in Periods, texts \in SeqsUpTo(FilterTexts, MaxFilterChunks)}

\* the lists of chunks on which the model answers in every way
AnsweredInputs ==
    {<<p[1], p[2], p[3], p[4], texts>> :
        p \in Periods,
        texts \in {<<"on 15/02/2024">>, <<"invoice date pending", "on 15/02/2024">>}}

\* where the model is asked, it fails or names the first chunk, and on the
\* lists above it answers in every way
ResponsesFor(in) ==
    IF ~NeedsModel(in[5], in[1], in[2], in[3], in[4]) THEN {LlmRaises}
    ELSE IF in \in AnsweredInputs THEN FilterResponses
    ELSE {LlmRaises, LlmText(MkDict([filtered_results |-> PyList(<<Kept(PyInt(0))>>)]))}

InitFilter ==
    /\ \E in \in FilterInputs \cup VariedInputs :
        /\ filing_month = in[1] /\ filing_year = in[2]
        /\ start_date = in[3] /\ end_date = in[4]
        /\ chunks = in[5]
        /\ response \in (IF in \in VariedInputs THEN ResponsesFor(in) ELSE {LlmRaises})
    /\ relevant_chunks = <<>>
    /\ filter_result = Pending
    /\ pc = "entry"
    /\ model_calls = 0
    /\ invoice_data = Idle /\ validated = Idle
    /\ invoices = Idle /\ user_gstin = Idle /\ unique_invoices = Idle
    /\ extraction_result = Idle /\ categorized_result = Idle
    /\ api_key = Idle /\ content = Idle /\ gstr1_result = Idle
    /\ llm_response = Idle /\ categorization = Idle
    /\ FilingIdle /\ ChunkerIdle

filterInputs == <<filing_month, filing_year, start_date, end_date, chunks, response>>

otherVars ==
    <<invoice_data, validated, invoices, user_gstin, unique_invoices, extraction_result,
      categorized_result, api_key, content, gstr1_result, llm_response, categorization,
      filingVars, chunkerVars>>

EnterTo(entered) ==
    /\ pc' = entered.pc
    /\ relevant_chunks' = entered.relevant
    /\ filter_result' = entered.result

\* the parameter checks, the patterns and step 1
FilterEntry ==
    /\ pc = "entry"
    /\ EnterTo(Enter(PeriodOf(filing_month, filing_year, start_date, end_date), chunks,
                     filing_year))
    /\ UNCHANGED <<model_calls, filterInputs, otherVars>>

\* mutant: the model is asked whatever the pre-filter found
LocalTo_asks_model(pre_filtered_chunks, ranged, desc) ==
    /\ filter_result' = filter_result
    /\ pc' = "model"

\* `if pre_filtered_chunks:` and its return statement
LocalTo(pre_filtered_chunks, ranged, desc) ==
    IF pre_filtered_chunks # <<>>
    THEN /\ filter_result' = Returned(PreFiltered(pre_filtered_chunks, relevant_chunks, ranged, desc))
         /\ pc' = "done"
    ELSE /\ filter_result' = filter_result
         /\ pc' = "model"

\* the pre-filter with local date parsing, up to the test of its outcome
LocalResolution ==
    /\ pc = "local"
    /\ LocalTo(PreFilter(relevant_chunks, 1, Ranged(start_date, end_date), filing_month,
                         filing_year, start_date, end_date),
               Ranged(start_date, end_date),
               PeriodOf(filing_month, filing_year, start_date, end_date).desc)
    /\ UNCHANGED <<model_calls, relevant_chunks, filterInputs, otherVars>>

\* mutant: a call that raised is made again
CallsOfTry_retries(calls, resp) == IF resp.kind = "raise" THEN calls + 2 ELSE calls + 1

\* the calls of generate_content once the try block is left: the block holds
\* one call and no loop, and its except branch only prints
CallsOfTry(calls, resp) == calls + 1

\* the one call of generate_content and what follows it
ModelCall ==
    /\ pc = "model"
    /\ model_calls' = CallsOfTry(model_calls, response)
    /\ filter_result' = Returned(AiFiltered(response, relevant_chunks,
                                            Ranged(start_date, end_date),
                                            PeriodOf(filing_month, filing_year, start_date,
                                                     end_date).desc))
    /\ pc' = "done"
    /\ UNCHANGED <<relevant_chunks, filterInputs, otherVars>>

FilterNext == FilterEntry \/ LocalResolution \/ ModelCall

SpecFilter == InitFilter /\ [][FilterNext]_vars

FilterDone == pc = "done"

\* every date the chunks hold is one whose parse is described
AllDatesModelled ==
    \A i \in 1..Len(chunks) :
        \A j \in 1..Len(_extract_all_dates_from_chunk(chunks[i])) :
            _parse_date_flexible(_extract_all_dates_from_chunk(chunks[i])[j]) # Unmodelled

----------------------------------------------------------------------------
(* The three handlers that call the model, one call of one of them.        *)

InitHandlers == InitExtract \/ InitClassify \/ InitFilter

\* the handler the state belongs to
InFilter == pc # Idle

InExtract == pc = Idle /\ user_gstin # Idle

InClassify == pc = Idle /\ user_gstin = Idle

HandlersNext ==
    \/ InExtract /\ ExtractGstr1Data
    \/ InClassify /\ CategorizeChunks
    \/ FilterNext

SpecHandlers == InitHandlers /\ [][HandlersNext]_vars

\* the call of the period filter failed and every relevant chunk is returned
FilterFellBack ==
    filter_result =
        Returned(FilterFallback(relevant_chunks, Ranged(start_date, end_date),
                                PeriodOf(filing_month, filing_year, start_date, end_date).desc))

\* C14: in one invocation of categorize_chunks, of filter_chunks_by_period
\* and of extract_gstr1_data the model is called at most once, whatever the
\* number of chunks, and after a call that failed the fallback result is
\* returned with no second call.
C14_AtMostOneModelCall ==
    /\ model_calls \in {0, 1}
    /\ (InFilter /\ pc = "done" /\ model_calls > 0 /\ response = LlmRaises)
            => (model_calls = 1 /\ FilterFellBack)
    /\ (InClassify /\ ClassifyDone /\ HasAmbiguous(chunks) /\ llm_response = LlmRaises)
            => /\ model_calls = 1
               /\ ~categorization.raised
               /\ \A i \in 1..Len(chunks) :
                    _keyword_filter(chunks[i], i - 1).d["category"] = PyStr("ambiguous")
                        => IsFallback(ReturnedResults[i])
    /\ (InExtract /\ ExtractDone /\ api_key /\ response = CallRaises)
            => (model_calls = 1 /\ gstr1_result = ManualFallback(content))

\* the model failed the period filter on two chunks, and both are returned
C14_Witness ==
    /\ pc = "done" /\ model_calls = 1 /\ response = LlmRaises
    /\ Len(relevant_chunks) = 2
    /\ filter_result.value.d["filtered_chunks"] = PyList(<<PyInt(0), PyInt(1)>>)

----------------------------------------------------------------------------
(* Properties of the period filter.                                        *)

FilterValue == filter_result.value.d

\* the call returned a dict with an error field
IsError == ~filter_result.raised /\ "error" \in DOMAIN FilterValue

\* the chunk indices of filtered_chunks
Retained == {FilterValue["filtered_chunks"].l[i].i : i \in 1..Len(FilterValue["filtered_chunks"].l)}

\* a period specification is complete when both of its parameters are given
MonthlyComplete == Truthy(filing_month) /\ Truthy(filing_year)

RangeComplete == Truthy(start_date) /\ Truthy(end_date)

\* C15: when both period specifications are complete, or neither is, the
\* call returns a parameter error and filters nothing.
C15_ExactlyOneSpecification ==
    (FilterDone /\ (MonthlyComplete <=> RangeComplete)) =>
        (IsError /\ model_calls = 0)

\* a month name and a year of four digits
ValidMonthly ==
    /\ MonthlyComplete
    /\ _month_name_to_number(filing_month.s) # 0
    /\ IsDigits(filing_year.s) /\ Len(filing_year.s) = 4

\* two dates of the calendar, both YYYY-MM-DD or both DD/MM/YYYY
ValidRange ==
    /\ RangeComplete
    /\ \/ StrptimeIso(start_date.s) # NoDate /\ StrptimeIso(end_date.s) # NoDate
       \/ StrptimeSlash(start_date.s) # NoDate /\ StrptimeSlash(end_date.s) # NoDate

\* C16: whatever the period parameters are, the call does not raise, and a
\* specification that is valid in neither mode yields a dict with an error
\* field and no model call.
C16_InvalidPeriodNeverRaises ==
    FilterDone =>
        /\ ~filter_result.raised
        /\ ~(ValidMonthly \/ ValidRange) => (IsError /\ model_calls = 0)

\* the relevant chunks in which local parsing finds a date of the period
LocallyMatched ==
    PreFilter(relevant_chunks, 1, Ranged(start_date, end_date), filing_month, filing_year,
              start_date, end_date)

\* what holds in every state of a call, step 1 having set relevant_chunks
LocalThenModel ==
    /\ pc = "model" => (relevant_chunks # <<>> /\ LocallyMatched = <<>>)
    /\ model_calls > 0 =>
            (pc = "done" /\ model_calls = 1 /\ relevant_chunks # <<>> /\ LocallyMatched = <<>>)
    /\ (pc = "done" /\ LocallyMatched # <<>>) =>
            /\ model_calls = 0
            /\ ~filter_result.raised
            /\ FilterValue["filtered_chunks"] = PyList(IndicesOfPairs(LocallyMatched))
    /\ pc = "done" =>
            (model_calls = 1 <=> (relevant_chunks # <<>> /\ LocallyMatched = <<>>))

\* the model is called from the step after the local pre-filter only
ModelAfterLocal ==
    /\ model_calls' # model_calls => pc = "model"
    /\ pc' = "model" => pc = "local"

TargetMonth == _month_name_to_number(filing_month.s)

TargetYear == DigitsToInt(filing_year.s)

\* the text holds a day of the target month written DD/MM/YYYY
HoldsDayOfMonth(text) ==
    \E d \in 1..DaysInMonth(TargetYear, TargetMonth) :
        Contains(text, DateText(d, TargetMonth, TargetYear))

\* C18: in monthly mode a chunk that holds a day of the target month written
\* DD/MM/YYYY is retained, and the model is not called.
C18_DayOfMonthRetainedLocally ==
    (FilterDone /\ ~RangeComplete /\ ValidMonthly) =>
        \A i \in 1..Len(chunks) :
            HoldsDayOfMonth(chunks[i]) =>
                /\ ~filter_result.raised /\ ~IsError
                /\ (i - 1) \in Retained
                /\ model_calls = 0

\* the dates local parsing finds in a text
ParsedDates(text) ==
    {_parse_date_flexible(_extract_all_dates_from_chunk(text)[j]) :
        j \in 1..Len(_extract_all_dates_from_chunk(text))} \ {NoDate, Unmodelled}

InTargetMonth(dt) == dt.m = TargetMonth /\ dt.y = TargetYear

\* C19: in monthly mode, when every date found in the chunks lies outside the
\* target month, the dated chunks are not in filtered_chunks and the model is
\* not called.
C19_OutOfMonthExcludedLocally ==
    (/\ FilterDone /\ ~RangeComplete /\ ValidMonthly
     /\ \E i \in 1..Len(chunks) : ParsedDates(chunks[i]) # {}
     /\ \A i \in 1..Len(chunks) : \A dt \in ParsedDates(chunks[i]) : ~InTargetMonth(dt))
    => /\ ~filter_result.raised /\ ~IsError
       /\ model_calls = 0
       /\ \A i \in 1..Len(chunks) : ParsedDates(chunks[i]) # {} => (i - 1) \notin Retained

\* the bounds as the entry reads them: the calendar dates the caller wrote
WrittenStart == PeriodOf(filing_month, filing_year, start_date, end_date).start_dt

WrittenEnd == PeriodOf(filing_month, filing_year, start_date, end_date).end_dt

\* one of the parsed dates of the text lies between the written bounds
WithinWritten(text) ==
    \E dt \in ParsedDates(text) :
        DateKey(WrittenStart) <= DateKey(dt) /\ DateKey(dt) <= DateKey(WrittenEnd)

\* YYYY-MM-DD and DD/MM/YYYY of a date
IsoText(dt) == IntToDigits(dt.y) \o "-" \o Pad2(dt.m) \o "-" \o Pad2(dt.d)

\* the bound written in the other accepted format
Rewritten(bound, dt) ==
    PyStr(IF Contains(bound.s, "-") THEN DateText(dt.d, dt.m, dt.y) ELSE IsoText(dt))

\* the relevant chunks the pre-filter keeps when the range is written in the
\* other format
MatchedAsRewritten ==
    PreFilter(relevant_chunks, 1, TRUE, filing_month, filing_year,
              Rewritten(start_date, WrittenStart), Rewritten(end_date, WrittenEnd))

\* C20: in range mode local resolution retains a chunk if and only if one of
\* its parsed dates lies between the bounds the caller wrote, both included,
\* and the range written in the other format retains the same chunks.
C20_RangeInclusiveEitherFormat ==
    (RangeComplete /\ ValidRange /\ pc \in {"model", "done"}) =>
        /\ \A i \in 1..Len(relevant_chunks) :
              (\E j \in 1..Len(LocallyMatched) : LocallyMatched[j] = relevant_chunks[i])
                  <=> WithinWritten(relevant_chunks[i][2])
        /\ LocallyMatched = MatchedAsRewritten

\* the response of the model is a failure: the call raised, the text holds no
\* JSON object or an invalid one, or the object has no filtered_results list
NotFilterStructure(resp) ==
    \/ resp.kind \in {"raise", "nomatch", "invalid"}
    \/ "filtered_results" \notin DOMAIN resp.v.d
    \/ resp.v.d["filtered_results"].t # "list"

\* C21: when the model was asked and its call failed (it raised, gave no JSON
\* object, invalid JSON, or an object without the filtered_results
\* structure), the call returns the indices of all relevant chunks with the
\* note of the fallback.
C21_FailedCallReturnsAllRelevant ==
    (FilterDone /\ model_calls = 1 /\ NotFilterStructure(response)) => FilterFellBack

----------------------------------------------------------------------------
(* filter_chunks_by_period as one call: what it returns or raises, and the *)
(* number of its calls of the model.                                       *)

Outcome(result, calls) == [result |-> result, calls |-> calls]

\* `if pre_filtered_chunks:` and what follows it
FilterAfterLocal(pre_filtered_chunks, relevant, ranged, desc, resp) ==
    IF pre_filtered_chunks # <<>>
    THEN Outcome(Returned(PreFiltered(pre_filtered_chunks, relevant, ranged, desc)), 0)
    ELSE Outcome(Returned(AiFiltered(resp, relevant, ranged, desc)), 1)

FilterEntered(entered, month, year, start, end, desc, resp) ==
    IF entered.pc = "done" THEN Outcome(entered.result, 0)
    ELSE FilterAfterLocal(PreFilter(entered.relevant, 1, Ranged(start, end), month, year,
                                    start, end),
                          entered.relevant, Ranged(start, end), desc, resp)

FilterPeriod(per, texts, month, year, start, end, resp) ==
    FilterEntered(Enter(per, texts, year), month, year, start, end,
                  IF per.kind = "error" THEN "" ELSE per.desc, resp)

filter_chunks_by_period(texts, month, year, start, end, resp) ==
    FilterPeriod(PeriodOf(month, year, start, end), texts, month, year, start, end, resp)

\* the call in three steps ends as the call in one
FilterAgrees ==
    FilterDone =>
        Outcome(filter_result, model_calls) =
            filter_chunks_by_period(chunks, filing_month, filing_year, start_date, end_date,
                                    response)

----------------------------------------------------------------------------
(* process_gstr1_filing (routes/filing_routes.py), in two steps: the       *)
(* period filter with the tests of its result, and the extraction.         *)

\* the call of the filter: the range when gstr1_details holds both of its
\* keys, the month and the year otherwise
FilterCall(texts, details, resp) ==
    IF "start_date" \in DOMAIN details.d /\ "end_date" \in DOMAIN details.d
    THEN filter_chunks_by_period(texts, PyNone, PyNone, details.d["start_date"],
                                 details.d["end_date"], resp)
    ELSE filter_chunks_by_period(texts, Get(details.d, "month", PyNone),
                                 Get(details.d, "year", PyNone), PyNone, PyNone, resp)

\* the except branch of step 1: every chunk; the text of the exception is
\* not spelled out
AllChunksFallback(texts) ==
    MkDict([filtered_chunks |-> PyList([i \in 1..Len(texts) |-> PyInt(i - 1)]),
            filing_period |-> PyStr("All chunks (fallback)"),
            total_original_chunks |-> PyInt(Len(texts)),
            total_filtered_chunks |-> PyInt(Len(texts)),
            notes |-> PyStr("Date filtering failed, using all chunks: ...")])

FilteredResultOf(outcome, texts) ==
    IF outcome.result.raised THEN AllChunksFallback(texts) ELSE outcome.result.value

\* [chunks[i] for i in filtered_indices if i < len(chunks)], from the k-th
\* index on; the indices are those of enumerate(chunks)
RECURSIVE SelectChunks(_, _, _)
SelectChunks(texts, indices, k) ==
    IF k > Len(indices) THEN <<>>
    ELSE (IF indices[k].i < Len(texts) THEN <<texts[indices[k].i + 1]>> ELSE <<>>)
         \o SelectChunks(texts, indices, k + 1)

ErrorStatus(message) == MkDict([status |-> PyStr("error"), message |-> message])

NoData(filtered) ==
    MkDict([status |-> PyStr("no_data"),
            message |-> PyStr("No transactions found for the selected date period: "
                              \o filtered.d["filing_period"].s),
            filing_period |-> filtered.d["filing_period"],
            total_chunks_analyzed |-> filtered.d["total_original_chunks"],
            error_type |-> PyStr("no_chunks_in_date_range")])

\* mutant: an empty list of indices goes on to the extraction
AfterFilter_extracts_empty(filtered) ==
    IF "error" \in DOMAIN filtered.d
    THEN /\ filing_result' = Returned(ErrorStatus(filtered.d["error"]))
         /\ filtered_chunks' = <<>>
         /\ filing_pc' = "done"
    ELSE /\ filing_result' = Pending
         /\ filtered_chunks' = SelectChunks(chunks, filtered.d["filtered_chunks"].l, 1)
         /\ filing_pc' = "extract"

\* the tests of filtered_result (lines 116-128) and the selection of the chunks
AfterFilter(filtered) ==
    IF "error" \in DOMAIN filtered.d
    THEN /\ filing_result' = Returned(ErrorStatus(filtered.d["error"]))
         /\ filtered_chunks' = <<>>
         /\ filing_pc' = "done"
    ELSE IF ~Truthy(filtered.d["filtered_chunks"])
    THEN /\ filing_result' = Returned(NoData(filtered))
         /\ filtered_chunks' = <<>>
         /\ filing_pc' = "done"
    ELSE /\ filing_result' = Pending
         /\ filtered_chunks' = SelectChunks(chunks, filtered.d["filtered_chunks"].l, 1)
         /\ filing_pc' = "extract"

FilterTo(outcome) ==
    /\ model_calls' = outcome.calls
    /\ filtered_result' = FilteredResultOf(outcome, chunks)
    /\ AfterFilter(FilteredResultOf(outcome, chunks))

\* what the handlers of a filing leave alone
nonFilingVars ==
    <<invoice_data, validated, invoices, user_gstin, unique_invoices, extraction_result,
      categorized_result, content, gstr1_result, llm_response, categorization,
      filterVars, chunkerVars>>

\* step 1 of process_gstr1_filing
FilterStep ==
    /\ filing_pc = "filter"
    /\ FilterTo(FilterCall(chunks, gstr1_details, response))
    /\ UNCHANGED <<chunks, response, api_key, document_store, filing_request, gstr1_details,
                   extractor_calls, saved_returns, db_fails, nonFilingVars>>

\* extraction_result of the except branch of step 2
BasicResult(n, why) ==
    MkDict([status |-> PyStr("completed"), total_invoices |-> PyInt(n),
            b2b_invoices |-> PyInt(n), total_taxable_value |-> PyFloat(Fin(0)),
            total_tax_amount |-> PyFloat(Fin(0)),
            message |-> PyStr("Processed " \o IntToDigits(n) \o " chunks (extraction failed: "
                              \o why \o ")")])

\* what step 2 adds to the result of the extractor; the invoices and totals
\* of extract_gstr1_data are those of SpecExtract and are left out here
ExtractedResult(n, filtered) ==
    MkDict([status |-> PyStr("completed"),
            message |-> PyStr("Successfully processed " \o IntToDigits(n)
                              \o " chunks for GSTR-1 filing and saved to database"),
            filtered_chunks_info |->
                MkDict([total_original_chunks |-> PyInt(Len(chunks)),
                        filtered_chunk_count |-> PyInt(n),
                        filtered_indices |-> filtered.d["filtered_chunks"],
                        filing_period |-> filtered.d["filing_period"]])])

Completed(filtered, extraction) ==
    MkDict([status |-> PyStr("completed"),
            filing_period |-> filtered.d["filing_period"],
            date_filtering |->
                MkDict([total_chunks_analyzed |-> filtered.d["total_original_chunks"],
                        filtered_chunks_count |-> filtered.d["total_filtered_chunks"],
                        notes |-> Get(filtered.d, "notes", PyStr(""))]),
            gstr1_extraction |-> extraction])

\* the try block of step 2: without the key nothing is called; with it the
\* extractor makes its one call of the model, and the return is saved
ExtractTo(key, fails) ==
    IF ~key
    THEN /\ UNCHANGED <<extractor_calls, model_calls, saved_returns>>
         /\ filing_result' = Returned(Completed(filtered_result,
                                    BasicResult(Len(filtered_chunks), "GOOGLE_API_KEY not found")))
    ELSE /\ extractor_calls' = extractor_calls + 1
         /\ model_calls' = model_calls + 1
         /\ saved_returns' = IF fails THEN saved_returns ELSE saved_returns + 1
         /\ filing_result' =
                Returned(Completed(filtered_result,
                                   IF fails THEN BasicResult(Len(filtered_chunks), "database")
                                   ELSE ExtractedResult(Len(filtered_chunks), filtered_result)))

\* step 2 of process_gstr1_filing
ExtractStep ==
    /\ filing_pc = "extract"
    /\ ExtractTo(api_key, db_fails)
    /\ filing_pc' = "done"
    /\ UNCHANGED <<chunks, response, api_key, document_store, filing_request, gstr1_details,
                   filtered_result, filtered_chunks, db_fails, nonFilingVars>>

----------------------------------------------------------------------------
(* Specification of one call of process_gstr1_filing.                      *)

\* gstr1_details: a month, a range, a range with the month beside it, a
\* month without its year, a start without its end, a year that is no
\* number, and nothing
ProcessDetails ==
    {MkDict([month |-> PyStr("March"), year |-> PyStr("2024")]),
     MkDict([start_date |-> PyStr("2024-03-01"), end_date |-> PyStr("2024-03-31")]),
     MkDict([month |-> PyStr("April"), year |-> PyStr("2024"),
             start_date |-> PyStr("15/03/2024"), end_date |-> PyStr("31/03/2024")]),
     MkDict([month |-> PyStr("March")]),
     MkDict([start_date |-> PyStr("2024-03-01")]),
     MkDict([month |-> PyStr("March"), year |-> PyStr("20x4")]),
     PyDict(EmptyDict)}

ProcessTexts == {"dated 15/03/2024", "on 15/02/2024", "terms apply"}

\* the model fails, names the first chunk, or names none
ProcessResponses ==
    {LlmRaises, LlmText(MkDict([filtered_results |-> PyList(<<Kept(PyInt(0))>>)])),
     LlmText(MkDict([filtered_results |-> PyList(<<>>)]))}

\* the filter of the request asks the model
ProcessNeedsModel(texts, details) == FilterCall(texts, details, LlmRaises).calls > 0

NoRequest == [user |-> "", document_ids |-> {}]

\* the state a call of process_gstr1_filing starts in, the store and the
\* request of its caller left aside
ProcessStart(texts, details) ==
    /\ chunks = texts
    /\ gstr1_details = details
    /\ response \in (IF ProcessNeedsModel(texts, details) THEN ProcessResponses ELSE {LlmRaises})
    /\ api_key \in BOOLEAN
    /\ db_fails \in (IF api_key THEN BOOLEAN ELSE {FALSE})
    /\ filtered_result = Pending /\ filtered_chunks = <<>> /\ filing_result = Pending
    /\ model_calls = 0 /\ extractor_calls = 0 /\ saved_returns = 0
    /\ filing_pc = "filter"

OtherHandlersIdle ==
    /\ FilterIdle /\ ChunkerIdle
    /\ invoice_data = Idle /\ validated = Idle
    /\ invoices = Idle /\ user_gstin = Idle /\ unique_invoices = Idle
    /\ extraction_result = Idle /\ categorized_result = Idle
    /\ content = Idle /\ gstr1_result = Idle
    /\ llm_response = Idle /\ categorization = Idle

InitProcess ==
    /\ \E texts \in SeqsUpTo(ProcessTexts, MaxFilterChunks), details \in ProcessDetails :
            ProcessStart(texts, details)
    /\ document_store = <<>>
    /\ filing_request = NoRequest
    /\ OtherHandlersIdle

ProcessNext == FilterStep \/ ExtractStep

SpecProcess == InitProcess /\ [][ProcessNext]_vars

ProcessDone == filing_pc = "done"

\* the period the filter is called with is one it accepts
DetailsPeriod ==
    IF "start_date" \in DOMAIN gstr1_details.d /\ "end_date" \in DOMAIN gstr1_details.d
    THEN PeriodOf(PyNone, PyNone, gstr1_details.d["start_date"], gstr1_details.d["end_date"])
    ELSE PeriodOf(Get(gstr1_details.d, "month", PyNone), Get(gstr1_details.d, "year", PyNone),
                  PyNone, PyNone)

ValidDetails ==
    /\ DetailsPeriod.kind # "error"
    /\ DetailsPeriod.kind = "month" =>
            (IsDigits(gstr1_details.d["year"].s) /\ Len(gstr1_details.d["year"].s) = 4)

\* the filter as the call under way calls it
FilterOfCall == FilterCall(chunks, gstr1_details, response)

\* no chunk passes step 1 of the filter
NoneRelevant ==
    \A i \in 1..Len(chunks) :
        ~_has_relevant_dates(chunks[i], DatePatternsOf(DetailsPeriod, gstr1_details.d["year"]).value)

IsEmptyStructure(result) ==
    /\ ~result.raised
    /\ result.value.t = "dict"
    /\ "error" \notin DOMAIN result.value.d
    /\ result.value.d["filtered_chunks"] = PyList(<<>>)
    /\ result.value.d["total_filtered_chunks"] = PyInt(0)

StatusOf(result) == result.value.d["status"].s

----------------------------------------------------------------------------
(* chunk_text (agent.py) and DocumentUseCase.create_chunks: the same loop. *)

Max(a, b) == IF a >= b THEN a ELSE b

\* an index of a slice: a negative one counts from the end, and both are
\* clipped to the text
SliceIndex(i, n) == IF i < 0 THEN Max(i + n, 0) ELSE Min(i, n)

\* s[a:b]
PySlice(s, a, b) ==
    IF SliceIndex(a, Len(s)) >= SliceIndex(b, Len(s)) THEN ""
    ELSE SubSeq(s, SliceIndex(a, Len(s)) + 1, SliceIndex(b, Len(s)))

\* s.rfind(c): the last index of c, -1 when there is none
RFind(s, c) ==
    IF \E i \in 1..Len(s) : Char(s, i) = c
    THEN (CHOOSE i \in 1..Len(s) : Char(s, i) = c /\ \A j \in (i + 1)..Len(s) : Char(s, j) # c) - 1
    ELSE 0 - 1

\* break_point = max(last_period, last_newline)
BreakPoint(chunk) == Max(RFind(chunk, "."), RFind(chunk, "\n"))

Window(chunk, end) == [chunk |-> chunk, end |-> end]

\* `if break_point > start + chunk_size // 2:` and its two assignments
BreakAt(txt, from, size, full, break_point) ==
    IF break_point > from + size \div 2
    THEN Window(PySlice(txt, from, from + break_point + 1), from + break_point + 1)
    ELSE full

\* `if end < len(text):` with the search of the break point
SentenceBreak(txt, from, size, full) ==
    IF full.end < Len(txt) THEN BreakAt(txt, from, size, full, BreakPoint(full.chunk))
    ELSE full

\* the chunk and the end of one iteration, before the strip
WindowAt(txt, from, size) ==
    SentenceBreak(txt, from, size, Window(PySlice(txt, from, from + size), from + size))

\* what chunk_text leaves alone
nonChunkerVars ==
    <<invoice_data, validated, invoices, user_gstin, unique_invoices, extraction_result,
      categorized_result, api_key, content, response, gstr1_result, chunks, llm_response,
      categorization, model_calls, filterVars, filingVars>>

\* the body of the loop
LoopTo(window) ==
    /\ text_chunks' = Append(text_chunks, Strip(window.chunk))
    /\ windows' = Append(windows, <<start_at, window.end>>)
    /\ start_at' = window.end - overlap

\* the entry: create_chunks returns no chunk for an empty content, and both
\* return the text as it is when it is no longer than chunk_size
ChunkEntry ==
    /\ chunk_pc \in {"chunk_text", "create_chunks"}
    /\ IF chunk_pc = "create_chunks" /\ text_in = ""
       THEN text_chunks' = <<>> /\ chunk_pc' = "done"
       ELSE IF Len(text_in) <= chunk_size
       THEN text_chunks' = <<text_in>> /\ chunk_pc' = "done"
       ELSE text_chunks' = <<>> /\ chunk_pc' = "loop"
    /\ UNCHANGED <<text_in, chunk_size, overlap, start_at, windows, nonChunkerVars>>

\* one iteration of `while start < len(text):`
ChunkLoop ==
    /\ chunk_pc = "loop"
    /\ start_at < Len(text_in)
    /\ Len(windows) < MaxWindows
    /\ LoopTo(WindowAt(text_in, start_at, chunk_size))
    /\ UNCHANGED <<text_in, chunk_size, overlap, chunk_pc, nonChunkerVars>>

\* the loop is left and the chunks are returned
ChunkReturn ==
    /\ chunk_pc = "loop"
    /\ start_at >= Len(text_in)
    /\ chunk_pc' = "done"
    /\ UNCHANGED <<text_in, chunk_size, overlap, start_at, windows, text_chunks,
                   nonChunkerVars>>

\* the characters of the short texts: a letter, a period, a blank
TextChars == {"a", ".", " "}

RECURSIVE TextsOfLen(_)
TextsOfLen(n) ==
    IF n = 0 THEN {""} ELSE {t \o c : t \in TextsOfLen(n - 1), c \in TextChars}

\* longer texts: a sentence that ends in the second window, lines, and a
\* sentence that ends early in a window that a large overlap follows
LongTexts ==
    {"aaaa.aa", "aaaaaaa.aaa", "aaa.aaaa.aaa", "aa a\naaa\naa", " aaaa aaaa ", "aaa.aaaaaa",
     "\naaaaaaa"}

Texts == UNION {TextsOfLen(n) : n \in 0..MaxTextLen} \cup LongTexts

InitChunk ==
    /\ text_in \in Texts
    /\ chunk_size \in 1..MaxChunkSize
    /\ overlap \in 0..(chunk_size - 1)
    /\ chunk_pc \in {"chunk_text", "create_chunks"}
    /\ start_at = 0 /\ windows = <<>> /\ text_chunks = <<>>
    /\ FilterIdle /\ FilingIdle
    /\ invoice_data = Idle /\ validated = Idle
    /\ invoices = Idle /\ user_gstin = Idle /\ unique_invoices = Idle
    /\ extraction_result = Idle /\ categorized_result = Idle
    /\ api_key = Idle /\ content = Idle /\ response = Idle /\ gstr1_result = Idle
    /\ chunks = Idle /\ llm_response = Idle /\ categorization = Idle /\ model_calls = Idle

ChunkNext == ChunkEntry \/ ChunkLoop \/ ChunkReturn

SpecChunk == InitChunk /\ [][ChunkNext]_vars

ChunkDone == chunk_pc = "done"

\* C23: a text no longer than chunk_size gives exactly one chunk, the text
\* with its leading and trailing whitespace stripped.
C23_ShortTextOneStrippedChunk ==
    (ChunkDone /\ Len(text_in) <= chunk_size) => text_chunks = <<Strip(text_in)>>

\* the windows start at 0, each starts no later than the one before it
\* ends, and the last reaches the end of the text
WindowsCover ==
    /\ windows # <<>>
    /\ windows[1][1] = 0
    /\ \A n \in 1..(Len(windows) - 1) :
            0 <= windows[n + 1][1] /\ windows[n + 1][1] <= windows[n][2]
    /\ windows[Len(windows)][2] >= Len(text_in)

\* s without its first k characters
DropFirst(s, k) == IF k >= Len(s) THEN "" ELSE SubSeq(s, k + 1, Len(s))

\* the chunks from the n-th on, each without what it shares with the window
\* before it, joined
RECURSIVE JoinFrom(_)
JoinFrom(n) ==
    IF n > Len(text_chunks) THEN ""
    ELSE DropFirst(text_chunks[n], IF n = 1 THEN 0 ELSE windows[n - 1][2] - windows[n][1])
         \o JoinFrom(n + 1)

\* C24: for a text longer than chunk_size, the windows cover every position
\* of the text without a gap, and the chunks joined without their overlaps
\* are the text.
C24_WindowsCoverAndReconstruct ==
    (ChunkDone /\ Len(text_in) > chunk_size) => (WindowsCover /\ JoinFrom(1) = text_in)

\* the windows alone
CoverWhenDone == (ChunkDone /\ Len(text_in) > chunk_size) => WindowsCover

\* an iteration of the loop
Iterates == chunk_pc = "loop" /\ windows' # windows

\* C25: for chunk_size > 0 and 0 <= overlap < chunk_size the start of the
\* window strictly increases at every iteration of the loop, also when the
\* window is cut at a sentence break, so that the loop ends.
C25_StartStrictlyIncreases == [][Iterates => start_at' > start_at]_vars

\* the position, counted from the start of the window, of the last period
\* or newline of the full window that starts at from
LastBreakIn(from) == BreakPoint(PySlice(text_in, from, from + chunk_size))

\* C29: a window that does not reach the end of the text, wherever it
\* starts, ends right after its last period or newline when that one lies
\* beyond the midpoint of the window.
C29_BreaksBeyondMidpoint ==
    \A n \in 1..Len(windows) :
        (/\ windows[n][1] >= 0
         /\ windows[n][1] + chunk_size < Len(text_in)
         /\ LastBreakIn(windows[n][1]) > chunk_size \div 2)
        => windows[n][2] = windows[n][1] + LastBreakIn(windows[n][1]) + 1

----------------------------------------------------------------------------
(* The document store and submit_filing: documents are parsed into the     *)
(* store while a filing request collects its chunks and processes them.    *)

\* chunk_text(content) of a content no longer than the default chunk_size
StoredChunks(doc_content) == <<doc_content>>

\* parse_document_content: document_store["chunks"][filename] = chunk_text(content)
Stored(store, filename, doc_content) == Put(store, filename, StoredChunks(doc_content))

\* all_chunks: the chunks of every entry of the store, from the i-th entry on
RECURSIVE AllChunks(_, _)
AllChunks(store, i) ==
    IF i > Len(store) THEN <<>>
    ELSE (IF store[i][2] # <<>> THEN store[i][2] ELSE <<>>) \o AllChunks(store, i + 1)

\* {"filing_id": ..., "status": "processing", ...}; the uuid is left out
Submitted(request, results) ==
    MkDict([status |-> PyStr("processing"), filing_types |-> request.filing_types,
            results |-> results, user_id |-> PyStr(request.user)])

\* what follows the collection of the chunks (lines 50-79)
SubmitTo(request, all_chunks) ==
    IF all_chunks = <<>>
    THEN /\ filing_result' = Raised("HTTPException")
         /\ filing_pc' = "returned"
         /\ UNCHANGED <<chunks, gstr1_details>>
    ELSE IF "GSTR-1" \in DOMAIN request.filing_types.d
    THEN /\ chunks' = all_chunks
         /\ gstr1_details' = request.filing_types.d["GSTR-1"]
         /\ filing_result' = Pending
         /\ filing_pc' = "filter"
    ELSE /\ filing_result' = Returned(Submitted(request, PyDict(EmptyDict)))
         /\ filing_pc' = "returned"
         /\ UNCHANGED <<chunks, gstr1_details>>

Users == {"u1", "u2"}

Filenames == {"a.txt", "b.txt"}

DocContents == {"dated 15/03/2024", "terms apply"}

\* the requests: one document named, for a month or for something else
FilingRequests ==
    {[user |-> u, document_ids |-> {f}, filing_types |-> PyDict(types)] :
        u \in Users, f \in Filenames,
        types \in {[k \in {"GSTR-1"} |-> MkDict([month |-> PyStr("March"), year |-> PyStr("2024")])],
                   [k \in {"GSTR-2"} |-> PyDict(EmptyDict)]}}

\* a document is parsed into the store
Upload ==
    /\ \E filename \in Filenames, doc_content \in DocContents :
            document_store' = Stored(document_store, filename, doc_content)
    /\ UNCHANGED <<chunks, response, api_key, model_calls, filing_request, gstr1_details,
                   filtered_result, filtered_chunks, filing_result, extractor_calls,
                   saved_returns, db_fails, filing_pc, nonFilingVars>>

\* submit_filing up to its call of process_gstr1_filing
SubmitFiling ==
    /\ filing_pc = "ready"
    /\ \E request \in FilingRequests :
            /\ filing_request' = request
            /\ SubmitTo(request, AllChunks(document_store, 1))
    /\ response' \in {LlmRaises, LlmText(MkDict([filtered_results |-> PyList(<<Kept(PyInt(0))>>)]))}
    /\ UNCHANGED <<api_key, model_calls, document_store, filtered_result, filtered_chunks,
                   extractor_calls, saved_returns, db_fails, nonFilingVars>>

\* submit_filing after process_gstr1_filing has returned
SubmitReturn ==
    /\ filing_pc = "done"
    /\ filing_request # NoRequest
    /\ filing_result' =
            Returned(Submitted(filing_request,
                               PyDict([k \in {"GSTR-1"} |-> filing_result.value])))
    /\ filing_pc' = "returned"
    /\ UNCHANGED <<chunks, response, api_key, model_calls, document_store, filing_request,
                   gstr1_details, filtered_result, filtered_chunks, extractor_calls,
                   saved_returns, db_fails, nonFilingVars>>

InitFiling ==
    /\ document_store = <<>>
    /\ filing_request = NoRequest
    /\ chunks = <<>> /\ gstr1_details = PyDict(EmptyDict) /\ response = LlmRaises
    /\ api_key \in BOOLEAN /\ db_fails = FALSE
    /\ filtered_result = Pending /\ filtered_chunks = <<>> /\ filing_result = Pending
    /\ model_calls = 0 /\ extractor_calls = 0 /\ saved_returns = 0
    /\ filing_pc = "ready"
    /\ OtherHandlersIdle

FilingNext == Upload \/ SubmitFiling \/ FilterStep \/ ExtractStep \/ SubmitReturn

SpecFiling == InitFiling /\ [][FilingNext]_vars

\* the chunks of the documents that the request names
RECURSIVE NamedChunks(_, _, _)
NamedChunks(store, ids, i) ==
    IF i > Len(store) THEN <<>>
    ELSE (IF store[i][1] \in ids THEN store[i][2] ELSE <<>>) \o NamedChunks(store, ids, i + 1)

\* the request hands to process_gstr1_filing the chunks of its documents
CollectsNamed ==
    (filing_pc = "ready" /\ filing_pc' = "filter") =>
        chunks' = NamedChunks(document_store, filing_request'.document_ids, 1)

\* while the request is processed its chunks stay what it collected
KeepsCollected == filing_pc \in {"filter", "extract", "done"} => chunks' = chunks

\* what the request extracts from is taken from its own chunks
ExtractsOwn ==
    filing_pc = "extract" =>
        \A i \in 1..Len(filtered_chunks) : \E j \in 1..Len(chunks) : filtered_chunks[i] = chunks[j]

\* C26: under every interleaving of document uploads with a filing request,
\* the chunks the request filters and extracts from are the chunks of the
\* documents it names, whatever other documents are in the store.
C26_ChunksRequestLocal == [][CollectsNamed /\ KeepsCollected]_vars /\ []ExtractsOwn

\* the part that holds: once collected, the list is not touched by uploads
LocalOnceCollected == [][KeepsCollected]_vars /\ []ExtractsOwn

----------------------------------------------------------------------------
(* Properties of the keyword stage of the classifier.                      *)

\* the lower-cased text holds none of the phrases that decide the category at once
NoStrongPhrase(chunk_lower) == ~ContainsAny(chunk_lower, gstr1_strong \cup gstr2_strong)

\* the number of the keywords of the set that are present in the lower-cased text
Present(chunk_lower, keywords) == Cardinality({k \in keywords : Contains(chunk_lower, k)})

HasCategory(result, category, hundredths) ==
    /\ result.d["category"] = PyStr(category)
    /\ result.d["confidence"] = PyFloat(Fin(hundredths))
    /\ result.d["method"] = PyStr("keyword")

\* the result for out outward and inw inward keywords
ScoredAs(result, out, inw) ==
    /\ out > inw => (HasCategory(result, "gstr1", Min(80, 50 + 10 * out))
                     /\ Min(80, 50 + 10 * out) \in 60..80)
    /\ inw > out => (HasCategory(result, "gstr2", Min(80, 50 + 10 * inw))
                     /\ Min(80, 50 + 10 * inw) \in 60..80)
    /\ (out = inw /\ out > 0) => HasCategory(result, "ambiguous", 40)
    /\ (out = 0 /\ inw = 0) => HasCategory(result, "irrelevant", 90)

\* as many outward as inward keywords, at least one
TiedCounts(out, inw) == out = inw /\ out > 0

\* no strong phrase and tied counts
Tied(chunk_lower) ==
    /\ NoStrongPhrase(chunk_lower)
    /\ TiedCounts(Present(chunk_lower, gstr1_keywords), Present(chunk_lower, gstr2_keywords))

\* the chunks that categorize_chunks collects for the model
SentToModel == IndicesOf(KeywordStage(chunks), "ambiguous")

RECURSIVE TiedFrom(_, _)
\* the indices, from i on, of the tied chunks, in order
TiedFrom(texts, i) ==
    IF i > Len(texts) THEN <<>>
    ELSE (IF Tied(Lower(texts[i])) THEN <<i - 1>> ELSE <<>>) \o TiedFrom(texts, i + 1)

\* the model got the chunks of the list, and was called when there is one
SentExactly(tied) ==
    /\ SentToModel = tied
    /\ model_calls = (IF tied # <<>> THEN 1 ELSE 0)

\* the keyword result of a chunk without strong phrase follows its counts
ScoredByCounts(chunk_lower, result) ==
    NoStrongPhrase(chunk_lower) =>
        ScoredAs(result, Present(chunk_lower, gstr1_keywords),
                 Present(chunk_lower, gstr2_keywords))

\* C27: a chunk without a strong-signal phrase gets from _keyword_filter the
\* category of the strictly higher of its two keyword counts at confidence
\* min(0.8, 0.5 + 0.1 x count), between 0.6 and 0.8; ambiguous at 0.4 for
\* equal positive counts; irrelevant at 0.9 for two zero counts.  The chunks
\* sent to the model are exactly those of the ambiguous case, and the model
\* is called exactly when there is one.
C27_KeywordScoring ==
    ClassifyDone =>
        /\ \A i \in 1..Len(chunks) :
              ScoredByCounts(Lower(chunks[i]), _keyword_filter(chunks[i], i - 1))
        /\ SentExactly(TiedFrom(chunks, 1))

\* four inward keywords are capped at 0.8, and a tie is sent to the model
C27_Witness ==
    /\ ClassifyDone /\ Len(chunks) = 2 /\ model_calls = 1
    /\ NoStrongPhrase(Lower(chunks[1]))
    /\ Present(Lower(chunks[1]), gstr2_keywords) = 4
    /\ Present(Lower(chunks[1]), gstr1_keywords) = 0
    /\ HasCategory(_keyword_filter(chunks[1], 0), "gstr2", 80)
    /\ Tied(Lower(chunks[2])) /\ SentToModel = <<1>>

----------------------------------------------------------------------------
(* Properties of the indices the period filter takes from the model.       *)

\* the original indices with which the prompt tags the chunks it lists
Tagged == {relevant_chunks[j][1] : j \in 1..Len(relevant_chunks)}

\* the result marks its chunk as in the period
MarksInPeriod(result, flag) ==
    /\ result.t = "dict"
    /\ Truthy(Get(result.d, flag, PyBool(FALSE)))
    /\ "chunk_index" \in DOMAIN result.d
    /\ result.d["chunk_index"].t = "int"

\* the indices the results mark as in the period
MarkedIn(results, flag) ==
    {results[j].d["chunk_index"].i : j \in {n \in 1..Len(results) : MarksInPeriod(results[n], flag)}}

Marked == MarkedIn(response.v.d["filtered_results"].l, FlagOf(Ranged(start_date, end_date)))

\* the call returned what it made of the filtered_results of the response
AiAnswered ==
    /\ FilterDone /\ model_calls = 1
    /\ ~NotFilterStructure(response)
    /\ ~filter_result.raised /\ ~FilterFellBack

\* C28: when the response of the model is used, filtered_chunks holds the
\* original index k of every chunk that the prompt tagged with k and the
\* response marked in the period, and it holds only original indices of
\* chunks the response marked.
C28_IndicesMapBack ==
    AiAnswered =>
        /\ \A k \in Tagged : k \in Marked => k \in Retained
        /\ Retained \subseteq (Marked \cap Tagged)

----------------------------------------------------------------------------
(* Properties of the results the classifier takes from the model.          *)

SameClassification(result, keyword_result) ==
    /\ result.t = "dict"
    /\ \A key \in {"category", "confidence", "method"} :
          /\ key \in DOMAIN result.d
          /\ result.d[key] = keyword_result.d[key]

\* the keyword stage decided the chunk
Decided(keyword_result) == keyword_result.d["category"] # PyStr("ambiguous")

\* C30: every chunk that _keyword_filter classified gstr1, gstr2 or
\* irrelevant has, in the result of categorize_chunks, the category, the
\* confidence and the method of its keyword result, whatever chunk indices
\* the response of the model holds.
C30_ModelChangesOnlyAmbiguous ==
    (ClassifyDone /\ ~categorization.raised) =>
        \A i \in 1..Len(chunks) :
            Decided(_keyword_filter(chunks[i], i - 1)) =>
                /\ i <= Len(ReturnedResults)
                /\ SameClassification(ReturnedResults[i], _keyword_filter(chunks[i], i - 1))

====
